---- MODULE Spec2Model ----
(***************************************************************************)
(* Authentication and authorization core of the Freelancer Feedback        *)
(* Assistant backend: password hashing, JWT issuance / verification /      *)
(* refresh (app/core/security.py), per-request identity resolution         *)
(* (app/api/deps.py) and the auth and user endpoints                       *)
(* (app/api/v1/endpoints/auth.py, users.py).                               *)
(*                                                                         *)
(* Time is the server's UTC clock in whole seconds, the resolution of the  *)
(* exp / iat claims of a JWT.  Python None and an absent dict key are the  *)
(* empty tuple <<>>; an optional value that is present is a 1-tuple.       *)
(***************************************************************************)
EXTENDS Integers, Sequences, FiniteSets, TLC

VARIABLES users, allocated, now, steps, issued, used, last, observed,
          pending, probe,
          projects, feedbacks, revisions, notifications, created, reply

vars == <<users, allocated, now, steps, issued, used, last, observed,
          pending, probe,
          projects, feedbacks, revisions, notifications, created, reply>>

\* The tables of the resource endpoints, the number of rows ever inserted in
\* them and the last resource request with its response
resources == <<projects, feedbacks, revisions, notifications, created, reply>>

----------------------------------------------------------------------------
(* Bounds of the model *)

MaxUsers == 2
MaxSteps == 4
MaxSalts == 1
MaxRequests == 2

(* Settings (app/core/config.py) *)

SECRET_KEY == "server-secret"
JWT_ALGORITHM == "HS256"
ACCESS_TOKEN_EXPIRE_MINUTES == 30
REFRESH_TOKEN_EXPIRE_DAYS == 7
BCRYPT_ROUNDS == 12

(* Units of datetime.timedelta, in seconds *)
SecondsPerMinute == 60
SecondsPerDay == 86400

None == <<>>

(* Inputs *)
OtherKey == "attacker-secret"
Emails == {"alice@example.com", "bob@example.com"}
Passwords == {<<80, 97>>, <<80, 98>>}
UserIds == 1 .. MaxUsers
Salts == 1 .. MaxSalts
Names == {"Alice"}

----------------------------------------------------------------------------
(* Python helpers *)

\* dict.get(key): the value, or None when the key is absent
get(d, k) == IF k \in DOMAIN d THEN d[k] ELSE None

\* an update that keeps the value of a key the dict already has
update_keep_existing(d, other) ==
    [k \in (DOMAIN d) \cup (DOMAIN other) |->
        IF k \in DOMAIN d THEN d[k] ELSE other[k]]

\* dict.update(other) on a copy of d
update(d, other) ==
    [k \in (DOMAIN d) \cup (DOMAIN other) |->
        IF k \in DOMAIN other THEN other[k] ELSE d[k]]

\* str(user.id): the canonical text of a UUID
str(id) == <<"canonical", id>>

\* uuid.UUID(text): parses the canonical text and the other accepted
\* spellings (urn:uuid:..., braces, no hyphens); ValueError on any other
\* string; None has no .replace(), so UUID(None) raises TypeError.
UUID(text) ==
    IF text = None THEN [exc |-> "TypeError", id |-> 0]
    ELSE IF text[1] \in {"canonical", "urn"} THEN [exc |-> "none", id |-> text[2]]
    ELSE [exc |-> "ValueError", id |-> 0]

----------------------------------------------------------------------------
(* Token codec: app/core/security.py *)

timedelta_minutes(m) == m * SecondsPerMinute
timedelta_days(d) == d * SecondsPerDay

\* jose.jwt.encode: the payload signed with key
jwt_encode(payload, key, algorithm) ==
    [form |-> "jwt", key |-> key, alg |-> algorithm, payload |-> payload]

\* jwt_decode with options verify_exp = False
jwt_decode_no_exp(token, key, algorithms, t) ==
    IF token.form # "jwt" THEN [exc |-> "JWTError", payload |-> None]
    ELSE IF token.key # key \/ token.alg \notin algorithms
        THEN [exc |-> "JWTError", payload |-> None]
    ELSE [exc |-> "none", payload |-> token.payload]

\* jwt_decode with options verify_signature = False
jwt_decode_no_sig(token, key, algorithms, t) ==
    IF token.form # "jwt" THEN [exc |-> "JWTError", payload |-> None]
    ELSE IF "exp" \in DOMAIN token.payload /\ token.payload["exp"] < t
        THEN [exc |-> "JWTError", payload |-> None]
    ELSE [exc |-> "none", payload |-> token.payload]

\* jose.jwt.decode: JWTError on a malformed token, a signature made with
\* another key or algorithm, or an exp claim in the past (exp < now, no leeway)
jwt_decode(token, key, algorithms, t) ==
    IF token.form # "jwt" THEN [exc |-> "JWTError", payload |-> None]
    ELSE IF token.key # key \/ token.alg \notin algorithms
        THEN [exc |-> "JWTError", payload |-> None]
    ELSE IF "exp" \in DOMAIN token.payload /\ token.payload["exp"] < t
        THEN [exc |-> "JWTError", payload |-> None]
    ELSE [exc |-> "none", payload |-> token.payload]

\* expires_delta is None or <<seconds>>; "if expires_delta:" is Python
\* truthiness, false for None and for a zero timedelta
truthy_delta(expires_delta) == expires_delta # None /\ expires_delta[1] # 0

create_access_token(data, expires_delta, t) ==
    LET expire == IF truthy_delta(expires_delta)
                  THEN t + expires_delta[1]
                  ELSE t + timedelta_minutes(ACCESS_TOKEN_EXPIRE_MINUTES)
        to_encode == update(data, [exp |-> expire, iat |-> t, type |-> "access"])
    IN  jwt_encode(to_encode, SECRET_KEY, JWT_ALGORITHM)

create_refresh_token(data, expires_delta, t) ==
    LET expire == IF truthy_delta(expires_delta)
                  THEN t + expires_delta[1]
                  ELSE t + timedelta_days(REFRESH_TOKEN_EXPIRE_DAYS)
        to_encode == update(data, [exp |-> expire, iat |-> t, type |-> "refresh"])
    IN  jwt_encode(to_encode, SECRET_KEY, JWT_ALGORITHM)

\* An HTTPException raised by a helper or handler
HTTPException(status, detail) ==
    [exc |-> "HTTPException", status |-> status, detail |-> detail]
NoException == [exc |-> "none", status |-> 200, detail |-> ""]

\* decode_token with a blacklist of the refresh tokens already exchanged
decode_token_revoking(token, t) ==
    LET r == jwt_decode(token, SECRET_KEY, {JWT_ALGORITHM}, t)
    IN  IF r.exc = "none" /\ token \notin used
        THEN [err |-> NoException, payload |-> r.payload]
        ELSE [err |-> HTTPException(401, "Could not validate credentials"),
              payload |-> None]

decode_token(token, t) ==
    LET r == jwt_decode(token, SECRET_KEY, {JWT_ALGORITHM}, t)
    IN  IF r.exc = "none"
        THEN [err |-> NoException, payload |-> r.payload]
        ELSE [err |-> HTTPException(401, "Could not validate credentials"),
              payload |-> None]

\* the f-string's rendering of the type claim
TypeText(token_type) == IF token_type = None THEN "None" ELSE token_type[1]

\* verify_token_type that never raises
verify_token_type_lax(payload, expected_type) == NoException

verify_token_type(payload, expected_type) ==
    LET token_type == IF "type" \in DOMAIN payload THEN <<payload["type"]>> ELSE None
    IN  IF token_type # <<expected_type>>
        THEN HTTPException(401, "Invalid token type. Expected " \o expected_type
                                 \o ", got " \o TypeText(token_type))
        ELSE NoException

\* create_token_pair with the arguments of the access token's data swapped
create_token_pair_swapped(user_id, email, t) ==
    [access_token  |-> create_access_token([sub |-> <<email>>, email |-> user_id], None, t),
     refresh_token |-> create_refresh_token([sub |-> user_id], None, t),
     token_type    |-> "bearer"]

create_token_pair(user_id, email, t) ==
    [access_token  |-> create_access_token([sub |-> user_id, email |-> email], None, t),
     refresh_token |-> create_refresh_token([sub |-> user_id], None, t),
     token_type    |-> "bearer"]

----------------------------------------------------------------------------
(* Password hasher: app/core/security.py *)

BcryptMaxBytes == 72
BcryptDefaultRounds == 12

Min(a, b) == IF a < b THEN a ELSE b

\* A password is a sequence of code points below 2048; str.encode('utf-8')
\* gives one byte for a code point below 128 and two bytes otherwise
utf8_bytes(cp) ==
    IF cp < 128 THEN <<cp>> ELSE <<192 + (cp \div 64), 128 + (cp % 64)>>

RECURSIVE encode_utf8(_)
encode_utf8(password) ==
    IF password = <<>> THEN <<>>
    ELSE utf8_bytes(Head(password)) \o encode_utf8(Tail(password))

\* the bytes as they are, with no slice
truncate_none(bytes) == bytes

\* bytes[:72]
truncate72(bytes) == SubSeq(bytes, 1, Min(Len(bytes), BcryptMaxBytes))

\* a salt that is the same on every call
gensalt_fixed(salt) == [salt |-> 0, rounds |-> BcryptDefaultRounds]

\* bcrypt.gensalt(): a random salt with the library's default cost
gensalt(salt) == [salt |-> salt, rounds |-> BcryptDefaultRounds]

\* bcrypt.hashpw: salt and cost are embedded in the output
hashpw(password_bytes, salt) ==
    [wellformed |-> TRUE, salt |-> salt.salt, rounds |-> salt.rounds,
     digest |-> password_bytes]

\* bcrypt.checkpw: re-hash under the stored salt and cost, compare
checkpw(password_bytes, hashed) ==
    hashpw(password_bytes, [salt |-> hashed.salt, rounds |-> hashed.rounds]) = hashed

get_password_hash(password, salt) ==
    hashpw(truncate72(encode_utf8(password)), gensalt(salt))

verify_password(plain_password, hashed_password) ==
    checkpw(truncate72(encode_utf8(plain_password)), hashed_password)

----------------------------------------------------------------------------
(* Identity resolver: app/api/deps.py *)

\* db.query(User).filter(User.id == user_id).first()
find_by_id(us, user_id) == IF user_id \in DOMAIN us THEN <<user_id>> ELSE None

\* a lookup by email that finds nothing
find_by_email_none(us, email) == None

\* db.query(User).filter(User.email == email).first()
find_by_email(us, email) ==
    LET m == {i \in DOMAIN us : us[i].email = email}
    IN  IF m = {} THEN None ELSE <<CHOOSE i \in m : \A j \in m : i <= j>>

\* get_current_user without the is_active check
get_current_user_no_active(us, token, t) ==
    LET d == decode_token(token, t)
        v == verify_token_type(d.payload, "access")
        u == UUID(get(d.payload, "sub"))
    IN  IF d.err.exc # "none"
            THEN [err |-> d.err, user_id |-> 0, queried |-> FALSE]
        ELSE IF v.exc # "none"
            THEN [err |-> v, user_id |-> 0, queried |-> FALSE]
        ELSE IF u.exc = "ValueError"
            THEN [err |-> HTTPException(401, "Could not validate credentials"),
                  user_id |-> 0, queried |-> FALSE]
        ELSE IF u.exc = "TypeError"
            THEN [err |-> [exc |-> "TypeError", status |-> 500,
                           detail |-> "Internal Server Error"],
                  user_id |-> 0, queried |-> FALSE]
        ELSE IF find_by_id(us, u.id) = None
            THEN [err |-> HTTPException(404, "User not found"),
                  user_id |-> 0, queried |-> TRUE]
        ELSE [err |-> NoException, user_id |-> u.id, queried |-> TRUE]

\* get_current_user that also compares the token's email claim with the
\* stored email
get_current_user_email_bound(us, token, t) ==
    LET d == decode_token(token, t)
        v == verify_token_type(d.payload, "access")
        u == UUID(get(d.payload, "sub"))
    IN  IF d.err.exc # "none"
            THEN [err |-> d.err, user_id |-> 0, queried |-> FALSE]
        ELSE IF v.exc # "none"
            THEN [err |-> v, user_id |-> 0, queried |-> FALSE]
        ELSE IF u.exc = "ValueError"
            THEN [err |-> HTTPException(401, "Could not validate credentials"),
                  user_id |-> 0, queried |-> FALSE]
        ELSE IF u.exc = "TypeError"
            THEN [err |-> [exc |-> "TypeError", status |-> 500,
                           detail |-> "Internal Server Error"],
                  user_id |-> 0, queried |-> FALSE]
        ELSE IF find_by_id(us, u.id) = None
            THEN [err |-> HTTPException(404, "User not found"),
                  user_id |-> 0, queried |-> TRUE]
        ELSE IF ~us[u.id].is_active
            THEN [err |-> HTTPException(403, "Inactive user"),
                  user_id |-> 0, queried |-> TRUE]
        ELSE IF get(d.payload, "email") # us[u.id].email
            THEN [err |-> HTTPException(401, "Could not validate credentials"),
                  user_id |-> 0, queried |-> TRUE]
        ELSE [err |-> NoException, user_id |-> u.id, queried |-> TRUE]

\* get_current_user that answers an unknown subject like an invalid token
get_current_user_not_found_401(us, token, t) ==
    LET d == decode_token(token, t)
        v == verify_token_type(d.payload, "access")
        u == UUID(get(d.payload, "sub"))
    IN  IF d.err.exc # "none"
            THEN [err |-> d.err, user_id |-> 0, queried |-> FALSE]
        ELSE IF v.exc # "none"
            THEN [err |-> v, user_id |-> 0, queried |-> FALSE]
        ELSE IF u.exc = "ValueError"
            THEN [err |-> HTTPException(401, "Could not validate credentials"),
                  user_id |-> 0, queried |-> FALSE]
        ELSE IF u.exc = "TypeError"
            THEN [err |-> [exc |-> "TypeError", status |-> 500,
                           detail |-> "Internal Server Error"],
                  user_id |-> 0, queried |-> FALSE]
        ELSE IF find_by_id(us, u.id) = None
            THEN [err |-> HTTPException(401, "Could not validate credentials"),
                  user_id |-> 0, queried |-> TRUE]
        ELSE IF ~us[u.id].is_active
            THEN [err |-> HTTPException(403, "Inactive user"),
                  user_id |-> 0, queried |-> TRUE]
        ELSE [err |-> NoException, user_id |-> u.id, queried |-> TRUE]

\* The outcome of the dependency: the exception it raises, or the user it
\* returns; queried tells whether the user table was read.
get_current_user(us, token, t) ==
    LET d == decode_token(token, t)
        v == verify_token_type(d.payload, "access")
        u == UUID(get(d.payload, "sub"))
    IN  IF d.err.exc # "none"
            THEN [err |-> d.err, user_id |-> 0, queried |-> FALSE]
        ELSE IF v.exc # "none"
            THEN [err |-> v, user_id |-> 0, queried |-> FALSE]
        ELSE IF u.exc = "ValueError"
            THEN [err |-> HTTPException(401, "Could not validate credentials"),
                  user_id |-> 0, queried |-> FALSE]
        ELSE IF u.exc = "TypeError"
            THEN [err |-> [exc |-> "TypeError", status |-> 500,
                           detail |-> "Internal Server Error"],
                  user_id |-> 0, queried |-> FALSE]
        ELSE IF find_by_id(us, u.id) = None
            THEN [err |-> HTTPException(404, "User not found"),
                  user_id |-> 0, queried |-> TRUE]
        ELSE IF ~us[u.id].is_active
            THEN [err |-> HTTPException(403, "Inactive user"),
                  user_id |-> 0, queried |-> TRUE]
        ELSE [err |-> NoException, user_id |-> u.id, queried |-> TRUE]

----------------------------------------------------------------------------
(* Requests and responses *)

\* The status of fastapi's "Not authenticated" error: 403 in the releases
\* before HTTPBearer followed RFC 6750, 401 since
NotAuthenticatedCodes == {401, 403}

\* HTTPBearer(auto_error=False): no error, the dependency gets None
HTTPBearer_no_auto_error(has_header, code) == NoException

\* security = HTTPBearer(): a request without an Authorization header is
\* answered before the dependent function runs
HTTPBearer(has_header, code) ==
    IF ~has_header THEN HTTPException(code, "Not authenticated") ELSE NoException

NoToken == [form |-> "none", key |-> "", alg |-> "", payload |-> <<>>]

\* UserInDB (app/schemas/user.py): the public fields and the stored hash
UserInDB(id, user) ==
    [id |-> id, email |-> user.email, full_name |-> user.full_name,
     is_active |-> user.is_active, is_verified |-> user.is_verified,
     last_login |-> user.last_login, hashed_password |-> user.hashed_password]

\* UserResponse (app/schemas/user.py): the public fields of a user row
UserResponse(id, user) ==
    [id |-> id, email |-> user.email, full_name |-> user.full_name,
     is_active |-> user.is_active, is_verified |-> user.is_verified,
     last_login |-> user.last_login]

\* The last request handled and its response.  uid is the user the handler
\* authenticated (0 when it raised before), pair the issued token pair, body
\* the returned UserResponse, reused whether the presented token had already
\* been exchanged by a successful POST /auth/refresh.
Call(op, tok, email, password, status, detail, uid, pair, body, queried) ==
    [op |-> op, tok |-> tok, email |-> email, password |-> password,
     status |-> status, detail |-> detail, uid |-> uid, pair |-> pair,
     body |-> body, queried |-> queried, reused |-> tok \in used]

NoCall == [op |-> "none", tok |-> NoToken, email |-> None, password |-> None,
           status |-> 0, detail |-> "", uid |-> 0, pair |-> None,
           body |-> None, queried |-> FALSE, reused |-> FALSE]

\* A POST /auth/register request in flight: not yet received (idle), past its
\* existence check (checked), or answered (done)
Idle == [pc |-> "idle", email |-> "", password |-> <<>>, full_name |-> None,
         salt |-> 0, status |-> 0]

\* The arguments and the result of one call of a function of
\* app/core/security.py
NoProbe == [fn |-> "none"]

\* A request to a resource endpoint and its response: the authenticated user,
\* the id in the path or query, the status and detail, the ids of the rows in
\* the body and the number in it
Reply(op, user, id, status, detail, returned, count) ==
    [op |-> op, user |-> user, id |-> id, status |-> status, detail |-> detail,
     returned |-> returned, count |-> count]

NoReply == Reply("none", 0, 0, 0, "", {}, 0)

Init ==
    /\ users = [i \in {} |-> None]
    /\ allocated = 0
    /\ now = 0
    /\ steps = 0
    /\ issued = {}
    /\ used = {}
    /\ last = NoCall
    /\ observed = FALSE
    /\ pending = [r \in 1 .. MaxRequests |-> Idle]
    /\ probe = NoProbe
    /\ projects = [i \in {} |-> None]
    /\ feedbacks = [i \in {} |-> None]
    /\ revisions = [i \in {} |-> None]
    /\ notifications = [i \in {} |-> None]
    /\ created = 0
    /\ reply = NoReply

----------------------------------------------------------------------------
(* Tokens a client can present *)

AccessTTL == timedelta_minutes(ACCESS_TOKEN_EXPIRE_MINUTES)
RefreshTTL == timedelta_days(REFRESH_TOKEN_EXPIRE_DAYS)

\* "invalid_token_12345": not a JWT at all
Garbage == [form |-> "garbage", key |-> "", alg |-> "", payload |-> <<>>]

\* The claims of tok under a signature made with another key
Forged(tok) == [tok EXCEPT !.key = OtherKey]

\* Tokens made by an attacker who does not know SECRET_KEY, expiring late
AttackerTokens ==
    {jwt_encode([sub |-> str(1), type |-> "access", exp |-> MaxSteps * RefreshTTL,
                 iat |-> 0], OtherKey, JWT_ALGORITHM)}

\* Tokens signed with SECRET_KEY by create_access_token / create_refresh_token
\* at time 0 on data dicts other than those of create_token_pair: no sub, a
\* sub that is no UUID, a UUID in its urn spelling
CraftedAccess ==
    {create_access_token(d, None, 0) :
        d \in {[email |-> "alice@example.com"], [sub |-> <<"bad">>],
               [sub |-> <<"urn", 1>>]}}

CraftedRefresh ==
    {create_refresh_token(d, None, 0) :
        d \in {[email |-> "alice@example.com"], [sub |-> <<"bad">>]}}

\* What a client sends as bearer token to a protected endpoint
PresentedBearer ==
    issued \cup {Forged(tok) : tok \in issued} \cup AttackerTokens
           \cup CraftedAccess \cup {Garbage}

\* What a client sends to POST /auth/refresh
PresentedRefresh ==
    issued \cup {Forged(tok) : tok \in issued} \cup CraftedRefresh \cup {Garbage}

----------------------------------------------------------------------------
(* The clock and the user-storage collaborator *)

TickSteps == {1, AccessTTL, RefreshTTL}

\* datetime.utcnow() advances between requests
Tick(d) ==
    /\ now' = now + d
    /\ last' = NoCall
    /\ steps < MaxSteps
    /\ steps' = steps + 1
    /\ UNCHANGED <<users, allocated, issued, used>>

\* update_fields(user_id, {is_active}): an administrator deactivates or
\* reactivates an account directly in the user table
SetActive(id, active) ==
    /\ id \in DOMAIN users
    /\ users[id].is_active # active
    /\ users' = [users EXCEPT ![id].is_active = active]
    /\ last' = NoCall
    /\ steps < MaxSteps
    /\ steps' = steps + 1
    /\ UNCHANGED <<allocated, now, issued, used>>

\* a users table without the unique constraint
unique_emails_off(us) == TRUE

\* The unique constraint of users.email, checked by db.commit()
unique_emails(us) ==
    \A i, j \in DOMAIN us : us[i].email = us[j].email => i = j

\* User.id == <text> for the sub claim of a refresh token: None matches no
\* row, the canonical text matches the row of that id; for a text that is no
\* UUID the column type either finds no row or raises (strict)
find_by_id_text(us, text, strict) ==
    IF text = None THEN [exc |-> "none", user |-> None]
    ELSE IF UUID(text).exc = "none"
        THEN [exc |-> "none", user |-> find_by_id(us, UUID(text).id)]
    ELSE IF strict THEN [exc |-> "StatementError", user |-> None]
    ELSE [exc |-> "none", user |-> None]

----------------------------------------------------------------------------
(* Credential service: app/api/v1/endpoints/auth.py *)

\* POST /auth/register
register(email, password, full_name, salt) ==
    LET existing_user == find_by_email(users, email)
        id == allocated + 1
        user == [email |-> email, full_name |-> full_name,
                 hashed_password |-> get_password_hash(password, salt),
                 is_active |-> TRUE, is_verified |-> FALSE, last_login |-> None]
        after == [i \in (DOMAIN users) \cup {id} |->
                    IF i = id THEN user ELSE users[i]]
    IN  IF existing_user # None
        THEN /\ last' = Call("register", NoToken, <<email>>, <<password>>, 400,
                             "Email already registered", 0, None, None, TRUE)
             /\ UNCHANGED <<users, allocated, now, steps, issued, used>>
        ELSE IF ~unique_emails(after)
        THEN /\ last' = Call("register", NoToken, <<email>>, <<password>>, 500,
                             "Internal Server Error", 0, None, None, TRUE)
             /\ UNCHANGED <<users, allocated, now, steps, issued, used>>
        ELSE /\ allocated < MaxUsers
             /\ users' = after
             /\ allocated' = id
             /\ last' = Call("register", NoToken, <<email>>, <<password>>, 201, "",
                             0, None, <<UserResponse(id, user)>>, TRUE)
             /\ steps < MaxSteps
             /\ steps' = steps + 1
             /\ UNCHANGED <<now, issued, used>>

\* login without the is_active check
login_no_active(email, password) ==
    LET found == find_by_email(users, email)
        user == users[found[1]]
        tokens == create_token_pair(str(found[1]), user.email, now)
    IN  IF found # None /\ ~user.hashed_password.wellformed
        THEN /\ last' = Call("login", NoToken, <<email>>, <<password>>, 500,
                             "Internal Server Error", 0, None, None, TRUE)
             /\ UNCHANGED <<users, allocated, now, steps, issued, used>>
        ELSE IF found = None \/ ~verify_password(password, user.hashed_password)
        THEN /\ last' = Call("login", NoToken, <<email>>, <<password>>, 401,
                             "Incorrect email or password", 0, None, None, TRUE)
             /\ UNCHANGED <<users, allocated, now, steps, issued, used>>
        ELSE /\ users' = [users EXCEPT ![found[1]].last_login = <<now>>]
             /\ issued' = issued \cup {tokens.access_token, tokens.refresh_token}
             /\ last' = Call("login", NoToken, <<email>>, <<password>>, 200, "",
                             found[1], <<tokens.access_token, tokens.refresh_token>>,
                             None, TRUE)
             /\ steps < MaxSteps
             /\ steps' = steps + 1
             /\ UNCHANGED <<allocated, now, used>>

\* login that checks is_active before the password
login_active_first(email, password) ==
    LET found == find_by_email(users, email)
        user == users[found[1]]
        tokens == create_token_pair(str(found[1]), user.email, now)
    IN  IF found # None /\ ~user.hashed_password.wellformed
        THEN /\ last' = Call("login", NoToken, <<email>>, <<password>>, 500,
                             "Internal Server Error", 0, None, None, TRUE)
             /\ UNCHANGED <<users, allocated, now, steps, issued, used>>
        ELSE IF found # None /\ ~user.is_active
        THEN /\ last' = Call("login", NoToken, <<email>>, <<password>>, 403,
                             "Inactive user", 0, None, None, TRUE)
             /\ UNCHANGED <<users, allocated, now, steps, issued, used>>
        ELSE IF found = None \/ ~verify_password(password, user.hashed_password)
        THEN /\ last' = Call("login", NoToken, <<email>>, <<password>>, 401,
                             "Incorrect email or password", 0, None, None, TRUE)
             /\ UNCHANGED <<users, allocated, now, steps, issued, used>>
        ELSE /\ users' = [users EXCEPT ![found[1]].last_login = <<now>>]
             /\ issued' = issued \cup {tokens.access_token, tokens.refresh_token}
             /\ last' = Call("login", NoToken, <<email>>, <<password>>, 200, "",
                             found[1], <<tokens.access_token, tokens.refresh_token>>,
                             None, TRUE)
             /\ steps < MaxSteps
             /\ steps' = steps + 1
             /\ UNCHANGED <<allocated, now, used>>

\* login that takes a hash bcrypt cannot read for a password that does not
\* match
login_malformed_as_mismatch(email, password) ==
    LET found == find_by_email(users, email)
        user == users[found[1]]
        tokens == create_token_pair(str(found[1]), user.email, now)
    IN  IF found = None \/ ~verify_password(password, user.hashed_password)
        THEN /\ last' = Call("login", NoToken, <<email>>, <<password>>, 401,
                             "Incorrect email or password", 0, None, None, TRUE)
             /\ UNCHANGED <<users, allocated, now, steps, issued, used>>
        ELSE IF ~user.is_active
        THEN /\ last' = Call("login", NoToken, <<email>>, <<password>>, 403,
                             "Inactive user", 0, None, None, TRUE)
             /\ UNCHANGED <<users, allocated, now, steps, issued, used>>
        ELSE /\ users' = [users EXCEPT ![found[1]].last_login = <<now>>]
             /\ issued' = issued \cup {tokens.access_token, tokens.refresh_token}
             /\ last' = Call("login", NoToken, <<email>>, <<password>>, 200, "",
                             found[1], <<tokens.access_token, tokens.refresh_token>>,
                             None, TRUE)
             /\ steps < MaxSteps
             /\ steps' = steps + 1
             /\ UNCHANGED <<allocated, now, used>>

\* POST /auth/login
login(email, password) ==
    LET found == find_by_email(users, email)
        user == users[found[1]]
        tokens == create_token_pair(str(found[1]), user.email, now)
    IN  IF found # None /\ ~user.hashed_password.wellformed
        THEN /\ last' = Call("login", NoToken, <<email>>, <<password>>, 500,
                             "Internal Server Error", 0, None, None, TRUE)
             /\ UNCHANGED <<users, allocated, now, steps, issued, used>>
        ELSE IF found = None \/ ~verify_password(password, user.hashed_password)
        THEN /\ last' = Call("login", NoToken, <<email>>, <<password>>, 401,
                             "Incorrect email or password", 0, None, None, TRUE)
             /\ UNCHANGED <<users, allocated, now, steps, issued, used>>
        ELSE IF ~user.is_active
        THEN /\ last' = Call("login", NoToken, <<email>>, <<password>>, 403,
                             "Inactive user", 0, None, None, TRUE)
             /\ UNCHANGED <<users, allocated, now, steps, issued, used>>
        ELSE /\ users' = [users EXCEPT ![found[1]].last_login = <<now>>]
             /\ issued' = issued \cup {tokens.access_token, tokens.refresh_token}
             /\ last' = Call("login", NoToken, <<email>>, <<password>>, 200, "",
                             found[1], <<tokens.access_token, tokens.refresh_token>>,
                             None, TRUE)
             /\ steps < MaxSteps
             /\ steps' = steps + 1
             /\ UNCHANGED <<allocated, now, used>>

\* refresh_outcome that checks only that the user exists
refresh_outcome_no_active(us, token, t, strict) ==
    LET d == decode_token(token, t)
        v == verify_token_type(d.payload, "refresh")
        user_id == get(d.payload, "sub")
        q == find_by_id_text(us, user_id, strict)
    IN  IF d.err.exc # "none" \/ v.exc # "none"
            THEN [status |-> 401, detail |-> "Invalid refresh token",
                  user_id |-> 0, queried |-> FALSE]
        ELSE IF q.exc # "none"
            THEN [status |-> 500, detail |-> "Internal Server Error",
                  user_id |-> 0, queried |-> TRUE]
        ELSE IF q.user = None
            THEN [status |-> 401, detail |-> "User not found or inactive",
                  user_id |-> 0, queried |-> TRUE]
        ELSE [status |-> 200, detail |-> "", user_id |-> q.user[1], queried |-> TRUE]

\* POST /auth/refresh, up to the decision: the response status and detail,
\* the user found (0 when none), and whether the user table was read
refresh_outcome(us, token, t, strict) ==
    LET d == decode_token(token, t)
        v == verify_token_type(d.payload, "refresh")
        user_id == get(d.payload, "sub")
        q == find_by_id_text(us, user_id, strict)
    IN  IF d.err.exc # "none" \/ v.exc # "none"
            THEN [status |-> 401, detail |-> "Invalid refresh token",
                  user_id |-> 0, queried |-> FALSE]
        ELSE IF q.exc # "none"
            THEN [status |-> 500, detail |-> "Internal Server Error",
                  user_id |-> 0, queried |-> TRUE]
        ELSE IF q.user = None \/ ~us[q.user[1]].is_active
            THEN [status |-> 401, detail |-> "User not found or inactive",
                  user_id |-> 0, queried |-> TRUE]
        ELSE [status |-> 200, detail |-> "", user_id |-> q.user[1], queried |-> TRUE]

\* refresh_token that stamps last_login like login does
refresh_token_touching_last_login(token, strict) ==
    LET r == refresh_outcome(users, token, now, strict)
        user == users[r.user_id]
        tokens == create_token_pair(str(r.user_id), user.email, now)
    IN  IF r.status # 200
        THEN /\ last' = Call("refresh", token, None, None, r.status, r.detail,
                             0, None, None, r.queried)
             /\ UNCHANGED <<users, allocated, now, steps, issued, used>>
        ELSE /\ issued' = issued \cup {tokens.access_token, tokens.refresh_token}
             /\ used' = used \cup {token}
             /\ last' = Call("refresh", token, None, None, 200, "", r.user_id,
                             <<tokens.access_token, tokens.refresh_token>>,
                             None, TRUE)
             /\ steps < MaxSteps
             /\ steps' = steps + 1
             /\ users' = [users EXCEPT ![r.user_id].last_login = <<now + 1>>]
             /\ UNCHANGED <<allocated, now>>

\* POST /auth/refresh
refresh_token(token, strict) ==
    LET r == refresh_outcome(users, token, now, strict)
        user == users[r.user_id]
        tokens == create_token_pair(str(r.user_id), user.email, now)
    IN  IF r.status # 200
        THEN /\ last' = Call("refresh", token, None, None, r.status, r.detail,
                             0, None, None, r.queried)
             /\ UNCHANGED <<users, allocated, now, steps, issued, used>>
        ELSE /\ issued' = issued \cup {tokens.access_token, tokens.refresh_token}
             /\ used' = used \cup {token}
             /\ last' = Call("refresh", token, None, None, 200, "", r.user_id,
                             <<tokens.access_token, tokens.refresh_token>>,
                             None, TRUE)
             /\ steps < MaxSteps
             /\ steps' = steps + 1
             /\ UNCHANGED <<users, allocated, now>>

\* GET /auth/me
get_current_user_info(token) ==
    LET cu == get_current_user(users, token, now)
    IN  /\ last' = IF cu.err.exc # "none"
                   THEN Call("me", token, None, None, cu.err.status, cu.err.detail,
                             0, None, None, cu.queried)
                   ELSE Call("me", token, None, None, 200, "", cu.user_id, None,
                             <<UserResponse(cu.user_id, users[cu.user_id])>>, TRUE)
        /\ UNCHANGED <<users, allocated, now, steps, issued, used>>

\* POST /auth/logout
logout(token) ==
    LET cu == get_current_user(users, token, now)
    IN  /\ last' = IF cu.err.exc # "none"
                   THEN Call("logout", token, None, None, cu.err.status,
                             cu.err.detail, 0, None, None, cu.queried)
                   ELSE Call("logout", token, None, None, 200,
                             "Successfully logged out", cu.user_id, None, None, TRUE)
        /\ UNCHANGED <<users, allocated, now, steps, issued, used>>

\* A request for an endpoint that depends on get_current_user, sent without
\* an Authorization header.  Should the security dependency let it through,
\* credentials is None and credentials.credentials raises AttributeError.
no_credentials(op, code) ==
    LET s == HTTPBearer(FALSE, code)
    IN  /\ last' = IF s.exc # "none"
                   THEN Call(op, NoToken, None, None, s.status, s.detail,
                             0, None, None, FALSE)
                   ELSE Call(op, NoToken, None, None, 500,
                             "Internal Server Error", 0, None, None, FALSE)
        /\ UNCHANGED <<users, allocated, now, steps, issued, used>>

----------------------------------------------------------------------------
(* User management: app/api/v1/endpoints/users.py *)

\* GET /users/me
get_current_user_profile(token) ==
    LET cu == get_current_user(users, token, now)
    IN  /\ last' = IF cu.err.exc # "none"
                   THEN Call("profile", token, None, None, cu.err.status,
                             cu.err.detail, 0, None, None, cu.queried)
                   ELSE Call("profile", token, None, None, 200, "", cu.user_id,
                             None, <<UserResponse(cu.user_id, users[cu.user_id])>>,
                             TRUE)
        /\ UNCHANGED <<users, allocated, now, steps, issued, used>>

\* PUT /users/me; each field of user_update is None or <<value>>
update_current_user(token, email, full_name, password, salt) ==
    LET cu == get_current_user(users, token, now)
        id == cu.user_id
        u1 == IF email # None THEN [users[id] EXCEPT !.email = email[1]] ELSE users[id]
        u2 == IF full_name # None THEN [u1 EXCEPT !.full_name = full_name] ELSE u1
        u3 == IF password # None
              THEN [u2 EXCEPT !.hashed_password = get_password_hash(password[1], salt)]
              ELSE u2
        after == [users EXCEPT ![id] = u3]
    IN  IF cu.err.exc # "none"
        THEN /\ last' = Call("update", token, None, None, cu.err.status,
                             cu.err.detail, 0, None, None, cu.queried)
             /\ UNCHANGED <<users, allocated, now, steps, issued, used>>
        ELSE IF ~unique_emails(after)
        THEN /\ last' = Call("update", token, None, None, 500,
                             "Internal Server Error", id, None, None, TRUE)
             /\ UNCHANGED <<users, allocated, now, steps, issued, used>>
        ELSE /\ users' = after
             /\ last' = Call("update", token, None, None, 200, "", id, None,
                             <<UserResponse(id, u3)>>, TRUE)
             /\ steps < MaxSteps
             /\ steps' = steps + 1
             /\ UNCHANGED <<allocated, now, issued, used>>

\* DELETE /users/me
delete_current_user(token) ==
    LET cu == get_current_user(users, token, now)
        id == cu.user_id
    IN  IF cu.err.exc # "none"
        THEN /\ last' = Call("delete", token, None, None, cu.err.status,
                             cu.err.detail, 0, None, None, cu.queried)
             /\ UNCHANGED <<users, allocated, now, steps, issued, used>>
        ELSE /\ users' = [i \in (DOMAIN users) \ {id} |-> users[i]]
             /\ last' = Call("delete", token, None, None, 204, "", id, None, None,
                             TRUE)
             /\ steps < MaxSteps
             /\ steps' = steps + 1
             /\ UNCHANGED <<allocated, now, issued, used>>

----------------------------------------------------------------------------

\* Every route that declares current_user = Depends(get_current_user): those
\* of auth.py and users.py, and ("resource") those of projects.py,
\* feedback.py, revisions.py and notifications.py
Guarded == {"me", "logout", "profile", "update", "delete", "resource"}

Optional(S) == {None} \cup {<<x>> : x \in S}

\* The request body of PUT /users/me matters only once the bearer token has
\* resolved; the column type's reaction only for a sub that is no UUID
UpdateChoices(tok, S) ==
    IF get_current_user(users, tok, now).err.exc = "none" THEN Optional(S) ELSE {None}
StrictChoices(tok) ==
    IF UUID(get(tok.payload, "sub")).exc = "ValueError" THEN BOOLEAN ELSE {FALSE}

\* What the program keeps: the user table, the ids handed out, the clock and
\* the tokens in circulation
stored == <<users, allocated, now, issued, used>>

\* One request (or one move of the environment) at a time.  A request that
\* changes nothing stored is explored as the last request of a behaviour: it
\* leaves the state as it found it, so whatever can follow it can also happen
\* without it.
Handle(request) ==
    /\ ~observed
    /\ request
    /\ observed' = (stored' = stored)
    /\ UNCHANGED <<pending, probe, resources>>

Next ==
    \/ \E d \in TickSteps : Handle(Tick(d))
    \/ \E id \in UserIds, active \in BOOLEAN : Handle(SetActive(id, active))
    \/ \E e \in Emails, p \in Passwords, n \in Names, s \in Salts :
          Handle(register(e, p, <<n>>, s))
    \/ \E e \in Emails, p \in Passwords : Handle(login(e, p))
    \/ \E tok \in PresentedRefresh :
          \E strict \in StrictChoices(tok) : Handle(refresh_token(tok, strict))
    \/ \E tok \in PresentedBearer : Handle(get_current_user_info(tok))
    \/ \E tok \in PresentedBearer : Handle(logout(tok))
    \/ \E tok \in PresentedBearer : Handle(get_current_user_profile(tok))
    \/ \E tok \in PresentedBearer :
          \E e \in UpdateChoices(tok, Emails), n \in UpdateChoices(tok, Names),
             p \in UpdateChoices(tok, Passwords), s \in Salts :
             Handle(update_current_user(tok, e, n, p, s))
    \/ \E tok \in PresentedBearer : Handle(delete_current_user(tok))
    \/ \E op \in Guarded, code \in NotAuthenticatedCodes :
          Handle(no_credentials(op, code))

Spec == Init /\ [][Next]_vars

----------------------------------------------------------------------------
(* Vocabulary of the properties *)

\* The endpoints that depend on get_current_user
Protected == {"me", "logout", "profile", "update", "delete"}

SignedByServer(tok) ==
    tok.form = "jwt" /\ tok.key = SECRET_KEY /\ tok.alg = JWT_ALGORITHM

HasType(tok, ty) == "type" \in DOMAIN tok.payload /\ tok.payload["type"] = ty

ExpiredAt(tok, t) == "exp" \in DOMAIN tok.payload /\ tok.payload["exp"] < t

\* The user id that the sub claim names, 0 when sub is absent or no UUID
SubjectId(tok) ==
    LET sub == get(tok.payload, "sub")
    IN  IF sub # None /\ Len(sub) = 2 THEN sub[2] ELSE 0

SubjectActive(tok) ==
    SubjectId(tok) \in DOMAIN users /\ users[SubjectId(tok)].is_active

----------------------------------------------------------------------------
(* C1: get_current_user never returns an identity for a refresh token: a
   protected endpoint called with a validly signed, unexpired token of type
   "refresh" answers 401 "Invalid token type. Expected access, got refresh",
   whatever the state of the subject's user record. *)
C1_RefreshTokenNeverResolves ==
    (/\ last.op \in Protected
     /\ SignedByServer(last.tok)
     /\ ~ExpiredAt(last.tok, now)
     /\ HasType(last.tok, "refresh"))
    => /\ last.status = 401
       /\ last.detail = "Invalid token type. Expected access, got refresh"
       /\ last.uid = 0
       /\ last.body = None

\* A refresh token of an existing, active user is presented and rejected
C1_Witness ==
    /\ last.op = "me"
    /\ last.tok \in issued
    /\ HasType(last.tok, "refresh")
    /\ ~ExpiredAt(last.tok, now)
    /\ SubjectActive(last.tok)
    /\ last.status = 401

(* C2: get_current_user returns an identity if and only if the token is
   signed with the server secret, unexpired, of type "access", its sub parses
   as a user id, a user with that id is stored and that user is active; the
   identity returned is the stored record of that id, so that GET /auth/me
   shows the stored email and is_active, not the token's email claim. *)
C2_ResolvesIffAllChecksPass ==
    [][last'.op \in Protected =>
        LET tok == last'.tok
            id == SubjectId(tok)
        IN  /\ (last'.uid # 0) <=>
                  (/\ SignedByServer(tok)
                   /\ ~ExpiredAt(tok, now)
                   /\ HasType(tok, "access")
                   /\ id \in DOMAIN users
                   /\ users[id].is_active)
            /\ last'.uid # 0 => last'.uid = id
            /\ (last'.op = "me" /\ last'.uid # 0) =>
                  /\ last'.status = 200
                  /\ last'.body # None
                  /\ last'.body[1].id = id
                  /\ last'.body[1].email = users[id].email
                  /\ last'.body[1].is_active = users[id].is_active]_vars

\* GET /auth/me resolves a token whose email claim is no longer the stored email
C2_Witness ==
    /\ last.op = "me"
    /\ last.uid # 0
    /\ last.body # None
    /\ "email" \in DOMAIN last.tok.payload
    /\ last.body[1].email # last.tok.payload["email"]

(* C3: while a user's record has is_active = false, every protected endpoint
   called with a validly signed, unexpired access token of that user answers
   403 "Inactive user", also for a token issued before the deactivation; while
   the record has is_active = true the same token resolves. *)
C3_DeactivationTakesEffectAtOnce ==
    [][(/\ last'.op \in Protected
        /\ SignedByServer(last'.tok)
        /\ ~ExpiredAt(last'.tok, now)
        /\ HasType(last'.tok, "access")
        /\ SubjectId(last'.tok) \in DOMAIN users)
       => IF users[SubjectId(last'.tok)].is_active
          THEN last'.uid = SubjectId(last'.tok)
          ELSE /\ last'.status = 403
               /\ last'.detail = "Inactive user"
               /\ last'.uid = 0]_vars

\* A token issued at login is rejected after the account was deactivated
C3_Witness ==
    /\ last.op \in Protected
    /\ last.tok \in issued
    /\ HasType(last.tok, "access")
    /\ ~ExpiredAt(last.tok, now)
    /\ SubjectId(last.tok) \in DOMAIN users
    /\ ~users[SubjectId(last.tok)].is_active
    /\ last.status = 403

(* C4: the clock never goes back, and once now > exp a validly signed token
   is rejected by every protected endpoint (401 "Could not validate
   credentials") and by POST /auth/refresh (401 "Invalid refresh token"), with
   no identity and no token pair; so a token rejected as expired is never
   accepted later. *)
C4_ExpiredTokenRejectedForEver ==
    [][/\ now' >= now
       /\ (/\ last'.op \in Protected \cup {"refresh"}
           /\ SignedByServer(last'.tok)
           /\ ExpiredAt(last'.tok, now'))
          => /\ last'.status = 401
             /\ last'.detail = IF last'.op = "refresh"
                               THEN "Invalid refresh token"
                               ELSE "Could not validate credentials"
             /\ last'.uid = 0
             /\ last'.pair = None
             /\ users' = users /\ issued' = issued]_vars

\* The access token of an active user is rejected one second after its exp
C4_Witness ==
    /\ last.op = "me"
    /\ last.tok \in issued
    /\ HasType(last.tok, "access")
    /\ now = last.tok.payload["exp"] + 1
    /\ SubjectActive(last.tok)
    /\ last.status = 401

(* C5: a presented token that is malformed or signed with a key other than
   SECRET_KEY is never accepted, whatever its claims: every protected
   endpoint answers 401 "Could not validate credentials", POST /auth/refresh answers 401, and
   no identity is resolved, no token pair issued and nothing stored changes. *)
C5_ForeignSignatureNeverAccepted ==
    [][(/\ last'.op \in Protected \cup {"refresh"}
        /\ last'.tok # NoToken
        /\ ~SignedByServer(last'.tok))
       => /\ last'.status = 401
          /\ last'.op \in Protected =>
                last'.detail = "Could not validate credentials"
          /\ last'.uid = 0
          /\ last'.pair = None
          /\ last'.body = None
          /\ users' = users /\ issued' = issued]_vars

\* The unexpired claims of an active user's token, under another key
C5_Witness ==
    /\ last.op \in Protected \cup {"refresh"}
    /\ last.tok.form = "jwt"
    /\ last.tok.key = OtherKey
    /\ [last.tok EXCEPT !.key = SECRET_KEY] \in issued
    /\ ~ExpiredAt(last.tok, now)
    /\ SubjectActive(last.tok)
    /\ last.status = 401
(* C6 as stated: POST /auth/refresh called with a validly signed, unexpired
   token of type "access" is rejected with the WrongTokenType error of
   verify_token_type, distinct from the invalid-token error, and issues no
   token pair. *)
C6_AsStated ==
    (/\ last.op = "refresh"
     /\ SignedByServer(last.tok)
     /\ ~ExpiredAt(last.tok, now)
     /\ HasType(last.tok, "access"))
    => /\ last.status = 401
       /\ last.detail = "Invalid token type. Expected refresh, got access"
       /\ last.detail # "Invalid refresh token"
       /\ last.pair = None

(* C6 amended: POST /auth/refresh called with a validly signed, unexpired
   token of type "access" is rejected with 401 "Invalid refresh token", the
   same error as for an undecodable token, and issues no token pair. *)
C6_AccessTokenRejectedAsInvalid ==
    [][(/\ last'.op = "refresh"
        /\ SignedByServer(last'.tok)
        /\ ~ExpiredAt(last'.tok, now)
        /\ HasType(last'.tok, "access"))
       => /\ last'.status = 401
          /\ last'.detail = "Invalid refresh token"
          /\ last'.pair = None
          /\ issued' = issued]_vars

\* The unexpired access token of an active user is sent to POST /auth/refresh
C6_Witness ==
    /\ last.op = "refresh"
    /\ last.tok \in issued
    /\ HasType(last.tok, "access")
    /\ ~ExpiredAt(last.tok, now)
    /\ SubjectActive(last.tok)
    /\ last.status = 401

(* C7: POST /auth/refresh answers the one error 401 "Invalid refresh token"
   for a bad signature, a malformed token, an expired token and a token whose
   type is not "refresh"; in each case no token pair is issued and the user
   table is neither read nor changed. *)
C7_OneErrorForDecodeAndTypeFailures ==
    [][(/\ last'.op = "refresh"
        /\ \/ ~SignedByServer(last'.tok)
           \/ ExpiredAt(last'.tok, now)
           \/ ~HasType(last'.tok, "refresh"))
       => /\ last'.status = 401
          /\ last'.detail = "Invalid refresh token"
          /\ last'.pair = None
          /\ ~last'.queried
          /\ users' = users
          /\ issued' = issued]_vars

\* An issued refresh token is presented after its exp
C7_Witness ==
    /\ last.op = "refresh"
    /\ last.tok \in issued
    /\ HasType(last.tok, "refresh")
    /\ ExpiredAt(last.tok, now)
    /\ last.detail = "Invalid refresh token"
    /\ ~last.queried

(* C8: POST /auth/refresh called with a validly signed, unexpired refresh
   token whose subject exists and is active answers 200 with a pair minted at
   the time of the call for that user: an access token (sub, stored email,
   exp = now + access lifetime) that get_current_user resolves to that user,
   and a refresh token (sub, exp = now + refresh lifetime) that POST
   /auth/refresh accepts. *)
C8_RefreshIssuesValidPair ==
    [][(/\ last'.op = "refresh"
        /\ SignedByServer(last'.tok)
        /\ ~ExpiredAt(last'.tok, now)
        /\ HasType(last'.tok, "refresh")
        /\ SubjectActive(last'.tok))
       => LET id == SubjectId(last'.tok)
              a == last'.pair[1]
              r == last'.pair[2]
          IN  /\ last'.status = 200
              /\ last'.pair # None
              /\ last'.uid = id
              /\ SignedByServer(a) /\ HasType(a, "access")
              /\ a.payload["sub"] = str(id)
              /\ a.payload["email"] = users[id].email
              /\ a.payload["iat"] = now
              /\ a.payload["exp"] = now + AccessTTL
              /\ SignedByServer(r) /\ HasType(r, "refresh")
              /\ r.payload["sub"] = str(id)
              /\ r.payload["iat"] = now
              /\ r.payload["exp"] = now + RefreshTTL
              /\ {a, r} \subseteq issued'
              /\ users' = users
              /\ get_current_user(users', a, now').user_id = id
              /\ \A strict \in BOOLEAN :
                    refresh_outcome(users', r, now', strict).status = 200]_vars

\* A refresh succeeded and both tokens of its answer are accepted
C8_Witness ==
    /\ last.op = "refresh"
    /\ last.status = 200
    /\ last.pair # None
    /\ get_current_user(users, last.pair[1], now).user_id = last.uid
    /\ refresh_outcome(users, last.pair[2], now, FALSE).user_id = last.uid

(* C9: a refresh token is not consumed by use: a refresh token that has
   already been exchanged successfully is accepted again at any time up to its
   exp while its subject exists and is active, and every issued access or
   refresh token stays accepted until its own exp under the same condition. *)
C9_RefreshTokenNotConsumed ==
    [][/\ (/\ last'.op = "refresh"
           /\ last'.tok \in used
           /\ ~ExpiredAt(last'.tok, now)
           /\ SubjectActive(last'.tok))
          => (last'.status = 200 /\ last'.pair # None)
       /\ (/\ last'.op = "refresh"
           /\ last'.tok \in issued
           /\ HasType(last'.tok, "refresh")
           /\ ~ExpiredAt(last'.tok, now)
           /\ SubjectActive(last'.tok))
          => last'.status = 200
       /\ (/\ last'.op \in Protected
           /\ last'.tok \in issued
           /\ HasType(last'.tok, "access")
           /\ ~ExpiredAt(last'.tok, now)
           /\ SubjectActive(last'.tok))
          => last'.uid = SubjectId(last'.tok)]_vars

\* The same refresh token is exchanged a second time
C9_Witness ==
    /\ last.op = "refresh"
    /\ last.reused
    /\ last.tok \in used
    /\ last.status = 200
    /\ last.pair # None

(* C10: POST /auth/refresh re-validates the subject: when the user named by
   sub has been deleted or has is_active = false at the time of the call, a
   validly signed, unexpired refresh token is answered 401 "User not found or
   inactive" and no token pair is issued. *)
C10_RefreshRevalidatesSubject ==
    [][(/\ last'.op = "refresh"
        /\ SignedByServer(last'.tok)
        /\ ~ExpiredAt(last'.tok, now)
        /\ HasType(last'.tok, "refresh")
        /\ SubjectId(last'.tok) # 0
        /\ ~SubjectActive(last'.tok))
       => /\ last'.status = 401
          /\ last'.detail = "User not found or inactive"
          /\ last'.pair = None
          /\ last'.queried
          /\ issued' = issued
          /\ users' = users]_vars

\* The refresh token of a user who deleted the account is presented
C10_Witness ==
    /\ last.op = "refresh"
    /\ last.tok \in issued
    /\ HasType(last.tok, "refresh")
    /\ ~ExpiredAt(last.tok, now)
    /\ SubjectId(last.tok) # 0
    /\ SubjectId(last.tok) \notin DOMAIN users
    /\ last.status = 401

(* C11: POST /auth/register with an email that some stored record has (exact
   match) answers 400 "Email already registered" and leaves the user table as
   it was; with an email that no record has it answers 201 and adds exactly
   one record, with that email, is_active = true, is_verified = false and a
   hash that verifies the submitted password, and changes no other record. *)
C11_RegisterRejectsTakenEmail ==
    [][last'.op = "register" =>
        LET e == last'.email[1]
            p == last'.password[1]
            added == (DOMAIN users') \ (DOMAIN users)
        IN  IF \E i \in DOMAIN users : users[i].email = e
            THEN /\ last'.status = 400
                 /\ last'.detail = "Email already registered"
                 /\ users' = users
            ELSE /\ last'.status = 201
                 /\ Cardinality(added) = 1
                 /\ DOMAIN users \subseteq DOMAIN users'
                 /\ \A i \in DOMAIN users : users'[i] = users[i]
                 /\ \A id \in added :
                       /\ users'[id].email = e
                       /\ users'[id].is_active
                       /\ ~users'[id].is_verified
                       /\ verify_password(p, users'[id].hashed_password)
                       /\ last'.body = <<UserResponse(id, users'[id])>>]_vars

\* A second registration of a stored email, with another password, is refused
C11_Witness ==
    /\ last.op = "register"
    /\ last.status = 400
    /\ \E i \in DOMAIN users :
          /\ users[i].email = last.email[1]
          /\ ~verify_password(last.password[1], users[i].hashed_password)

(* C12: email uniqueness is an invariant of the user table: after any
   sequence of register, login, refresh, update_current_user (which may set
   email) and delete_current_user requests, no two stored records have the
   same email. *)
C12_EmailsStayUnique ==
    \A i \in DOMAIN users : \A j \in DOMAIN users :
        i # j => users[i].email # users[j].email

\* PUT /users/me asked for the email of the other stored user and failed
C12_Witness ==
    /\ last.op = "update"
    /\ last.uid # 0
    /\ last.status = 500
    /\ Cardinality({users[i].email : i \in DOMAIN users}) = 2

----------------------------------------------------------------------------
(* Concurrent registrations.  register is a plain def, which the framework
   runs on a worker thread with a database session of its own, so the
   requests interleave between the existence check and the commit. *)

\* POST /auth/register up to the existence check
register_check(r, email, password, full_name, salt) ==
    LET existing_user == find_by_email(users, email)
        request == [pc |-> "checked", email |-> email, password |-> password,
                    full_name |-> full_name, salt |-> salt, status |-> 0]
    IN  /\ pending[r].pc = "idle"
        /\ pending' = [pending EXCEPT ![r] =
                          IF existing_user # None
                          THEN [request EXCEPT !.pc = "done", !.status = 400]
                          ELSE request]
        /\ UNCHANGED <<users, allocated, now, steps, issued, used, last,
                       observed, probe, resources>>

\* POST /auth/register from the hashing of the password to the commit
register_insert(r) ==
    LET q == pending[r]
        id == allocated + 1
        user == [email |-> q.email, full_name |-> q.full_name,
                 hashed_password |-> get_password_hash(q.password, q.salt),
                 is_active |-> TRUE, is_verified |-> FALSE, last_login |-> None]
        after == [i \in (DOMAIN users) \cup {id} |->
                    IF i = id THEN user ELSE users[i]]
    IN  /\ q.pc = "checked"
        /\ IF ~unique_emails(after)
           THEN /\ pending' = [pending EXCEPT ![r].pc = "done", ![r].status = 500]
                /\ UNCHANGED <<users, allocated>>
           ELSE /\ allocated < MaxUsers
                /\ users' = after
                /\ allocated' = id
                /\ pending' = [pending EXCEPT ![r].pc = "done", ![r].status = 201]
        /\ UNCHANGED <<now, steps, issued, used, last, observed, probe, resources>>

RaceNext ==
    \/ \E r \in 1 .. MaxRequests, e \in Emails, p \in Passwords, n \in Names,
          s \in Salts : register_check(r, e, p, <<n>>, s)
    \/ \E r \in 1 .. MaxRequests : register_insert(r)

RaceSpec == Init /\ [][RaceNext]_vars

(* C13: when register requests for the same email run concurrently, the
   existence check and the insert of each being separate steps that
   interleave, at most one of them is answered 201 and the user table ends
   with at most one record for that email. *)
C13_OneConcurrentRegistrationWins ==
    /\ \A r1 \in 1 .. MaxRequests : \A r2 \in 1 .. MaxRequests :
          (/\ r1 # r2
           /\ pending[r1].pc = "done" /\ pending[r2].pc = "done"
           /\ pending[r1].email = pending[r2].email)
          => ~(pending[r1].status = 201 /\ pending[r2].status = 201)
    /\ \A e \in Emails : Cardinality({i \in DOMAIN users : users[i].email = e}) <= 1

\* Two requests for one email both passed the existence check before either
\* committed, and both have been answered
C13_Witness ==
    \E r1 \in 1 .. MaxRequests : \E r2 \in 1 .. MaxRequests :
        /\ r1 # r2
        /\ pending[r1].email = pending[r2].email
        /\ pending[r1].pc = "done" /\ pending[r1].status = 201
        /\ pending[r2].pc = "done" /\ pending[r2].status = 500

----------------------------------------------------------------------------
(* C14: POST /auth/login with the email of a stored, active user and a
   password that verifies against its stored hash answers 200: it writes
   last_login on that record and nothing else, and returns an access token
   (type "access", sub = the user's id, email = the user's email) that
   get_current_user resolves to that user, and a refresh token (type
   "refresh", sub = the user's id). *)
C14_LoginIssuesPairForUser ==
    [][last'.op = "login" =>
        \A id \in DOMAIN users :
            (/\ users[id].email = last'.email[1]
             /\ users[id].is_active
             /\ verify_password(last'.password[1], users[id].hashed_password))
            => LET a == last'.pair[1]
                   r == last'.pair[2]
               IN  /\ last'.status = 200
                   /\ last'.pair # None
                   /\ last'.uid = id
                   /\ users' = [users EXCEPT ![id].last_login = <<now>>]
                   /\ SignedByServer(a) /\ HasType(a, "access")
                   /\ a.payload["sub"] = str(id)
                   /\ a.payload["email"] = users[id].email
                   /\ SignedByServer(r) /\ HasType(r, "refresh")
                   /\ r.payload["sub"] = str(id)
                   /\ {a, r} \subseteq issued'
                   /\ get_current_user(users', a, now').err = NoException
                   /\ get_current_user(users', a, now').user_id = id]_vars

\* A login succeeded at a time other than 0, for the second registered user
C14_Witness ==
    /\ last.op = "login"
    /\ last.status = 200
    /\ last.uid = 2
    /\ now > 0
    /\ users[last.uid].last_login = <<now>>
    /\ get_current_user(users, last.pair[1], now).user_id = last.uid

(* C15: POST /auth/login does not reveal whether an account exists: for an
   email and a password that does not verify for it, the answer is 401
   "Incorrect email or password" with no tokens and nothing written,
   the same whether the email is not registered, is registered to an active
   user or is registered to an inactive user. *)
C15_LoginFailureIsUniform ==
    [][last'.op = "login" =>
        ((~\E i \in DOMAIN users :
              /\ users[i].email = last'.email[1]
              /\ verify_password(last'.password[1], users[i].hashed_password))
         => /\ last'.status = 401
            /\ last'.detail = "Incorrect email or password"
            /\ last'.uid = 0
            /\ last'.pair = None
            /\ last'.body = None
            /\ users' = users
            /\ issued' = issued)]_vars

\* A wrong password for an inactive account is answered like an unknown email
C15_Witness ==
    /\ last.op = "login"
    /\ last.status = 401
    /\ \E i \in DOMAIN users :
          /\ users[i].email = last.email[1]
          /\ ~users[i].is_active
          /\ ~verify_password(last.password[1], users[i].hashed_password)

(* C16: POST /auth/login for a stored user whose record has is_active =
   false and whose password verifies answers 403 "Inactive user", issues no
   tokens and does not write last_login. *)
C16_InactiveUserCannotLogin ==
    [][last'.op = "login" =>
        \A id \in DOMAIN users :
            (/\ users[id].email = last'.email[1]
             /\ ~users[id].is_active
             /\ verify_password(last'.password[1], users[id].hashed_password))
            => /\ last'.status = 403
               /\ last'.detail = "Inactive user"
               /\ last'.uid = 0
               /\ last'.pair = None
               /\ issued' = issued
               /\ users'[id].last_login = users[id].last_login
               /\ users' = users]_vars

\* A deactivated user who had logged in before presents the right password
C16_Witness ==
    /\ last.op = "login"
    /\ last.status = 403
    /\ \E i \in DOMAIN users :
          /\ users[i].email = last.email[1]
          /\ ~users[i].is_active
          /\ users[i].last_login # None
          /\ verify_password(last.password[1], users[i].hashed_password)

(* C17: tokens cannot be invalidated early: in every state, every issued
   access token that is unexpired and whose subject is stored and active is
   resolved by get_current_user to its subject, whatever logout, password or
   email change through PUT /users/me, later login or refresh came between
   its issuance and that state. *)
C17_NoEarlyInvalidation ==
    \A tok \in issued :
        (/\ HasType(tok, "access")
         /\ ~ExpiredAt(tok, now)
         /\ SubjectActive(tok))
        => /\ get_current_user(users, tok, now).err = NoException
           /\ get_current_user(users, tok, now).user_id = SubjectId(tok)

\* The token that authenticated a PUT /users/me which changed the stored
\* email, and so carries an email claim no record has any more, still resolves
C17_Witness ==
    /\ last.op = "update"
    /\ last.status = 200
    /\ last.tok \in issued
    /\ \A i \in DOMAIN users : users[i].email # last.tok.payload["email"]
    /\ ~ExpiredAt(last.tok, now)
    /\ get_current_user(users, last.tok, now).user_id = last.uid

(* C18: every endpoint that depends on get_current_user (/auth/me,
   /auth/logout, /users/me and the project, feedback, revision and
   notification routes), called without a bearer token, is answered 401 or
   403 "Not authenticated", resolves no identity and changes nothing
   stored. *)
C18_MissingCredentialsRejected ==
    [][(last'.op \in Guarded /\ last'.tok = NoToken)
       => /\ last'.status \in {401, 403}
          /\ last'.detail = "Not authenticated"
          /\ last'.uid = 0
          /\ last'.pair = None
          /\ last'.body = None
          /\ users' = users
          /\ issued' = issued]_vars

\* DELETE /users/me without a token, while a user is stored
C18_Witness ==
    /\ last.op = "delete"
    /\ last.tok = NoToken
    /\ last.status \in NotAuthenticatedCodes
    /\ DOMAIN users # {}

----------------------------------------------------------------------------
(* The token codec called directly *)

\* A dict with the one key k, or the empty dict when v is None
item(k, v) == IF v = None THEN <<>> ELSE [x \in {k} |-> v[1]]

\* The data dicts a caller may pass: any of sub, email, type, exp and iat
DataTypes == {"access", "refresh", "admin"}
DataTimes == {0, 7}
data_dict(sub, email, type, exp, iat) ==
    update(update(update(update(item("sub", sub), item("email", email)),
                         item("type", type)), item("exp", exp)), item("iat", iat))

\* timedelta arguments: absent, zero, a minute, a minute in the past
Deltas == {None, <<0>>, <<SecondsPerMinute>>, <<0 - SecondsPerMinute>>}

\* datetime.utcnow() at the time of the call
CallTimes == {0, AccessTTL, RefreshTTL}

\* The subjects a caller may name: the text of a user id, or any other string
Subjects == {str(i) : i \in UserIds} \cup {<<"bad">>}

\* The caller's dict once create_access_token or create_refresh_token has
\* returned: both write to data.copy(), a dict of their own
caller_data_after(data) == data

call_create_token_pair(user_id, email, t) ==
    /\ probe = NoProbe
    /\ probe' = [fn |-> "create_token_pair", user_id |-> user_id,
                 email |-> email, t |-> t,
                 tokens |-> create_token_pair(user_id, email, t)]
    /\ UNCHANGED <<users, allocated, now, steps, issued, used, last, observed,
                   pending, resources>>

call_create_access_token(data, expires_delta, t) ==
    /\ probe = NoProbe
    /\ probe' = [fn |-> "create_access_token", data |-> data,
                 expires_delta |-> expires_delta, t |-> t,
                 token |-> create_access_token(data, expires_delta, t),
                 data_after |-> caller_data_after(data)]
    /\ UNCHANGED <<users, allocated, now, steps, issued, used, last, observed,
                   pending, resources>>

call_create_refresh_token(data, expires_delta, t) ==
    /\ probe = NoProbe
    /\ probe' = [fn |-> "create_refresh_token", data |-> data,
                 expires_delta |-> expires_delta, t |-> t,
                 token |-> create_refresh_token(data, expires_delta, t),
                 data_after |-> caller_data_after(data)]
    /\ UNCHANGED <<users, allocated, now, steps, issued, used, last, observed,
                   pending, resources>>

CodecNext ==
    \/ \E user_id \in Subjects, e \in Emails, t \in CallTimes :
          call_create_token_pair(user_id, e, t)
    \/ \E sub \in Optional({str(1)}), e \in Optional({"alice@example.com"}),
          ty \in Optional(DataTypes), x \in Optional(DataTimes),
          i \in Optional(DataTimes), delta \in Deltas, t \in CallTimes :
          call_create_access_token(data_dict(sub, e, ty, x, i), delta, t)
    \/ \E sub \in Optional({str(1)}), e \in Optional({"alice@example.com"}),
          ty \in Optional(DataTypes), x \in Optional(DataTimes),
          i \in Optional(DataTimes), delta \in Deltas, t \in CallTimes :
          call_create_refresh_token(data_dict(sub, e, ty, x, i), delta, t)

CodecSpec == Init /\ [][CodecNext]_vars

\* The type the function named fn gives its tokens
IssuedType(fn) == IF fn = "create_access_token" THEN "access" ELSE "refresh"

(* C19: issue / decode round trip.  The tokens of create_token_pair(user_id,
   email), decoded at the time of issuance, give type "access", sub = user_id
   and email = email for the access token and type "refresh", sub = user_id
   for the refresh token.  For every data dict passed to create_access_token
   or create_refresh_token, also one that has a "type", "exp" or "iat" key,
   the issued token has type "access" or "refresh" respectively, decoding it
   at once gives that type unless the expires_delta asked for lies in the
   past, and the caller's dict is as it was. *)
C19_IssueDecodeRoundTrip ==
    /\ probe.fn = "create_token_pair" =>
          LET a == decode_token(probe.tokens.access_token, probe.t)
              r == decode_token(probe.tokens.refresh_token, probe.t)
          IN  /\ a.err = NoException
              /\ a.payload["type"] = "access"
              /\ a.payload["sub"] = probe.user_id
              /\ a.payload["email"] = probe.email
              /\ r.err = NoException
              /\ r.payload["type"] = "refresh"
              /\ r.payload["sub"] = probe.user_id
              /\ probe.tokens.token_type = "bearer"
    /\ probe.fn \in {"create_access_token", "create_refresh_token"} =>
          LET d == decode_token(probe.token, probe.t)
              past == probe.expires_delta # None /\ probe.expires_delta[1] < 0
          IN  /\ SignedByServer(probe.token)
              /\ probe.token.payload["type"] = IssuedType(probe.fn)
              /\ (d.err = NoException) <=> ~past
              /\ ~past => d.payload["type"] = IssuedType(probe.fn)
              /\ \A k \in DOMAIN probe.data \ {"type", "exp", "iat"} :
                    probe.token.payload[k] = probe.data[k]
              /\ probe.data_after = probe.data

\* create_access_token was given a dict that says type "refresh" and carries
\* an exp and an iat of its own
C19_Witness ==
    /\ probe.fn = "create_access_token"
    /\ {"type", "exp", "iat", "sub"} \subseteq DOMAIN probe.data
    /\ probe.data["type"] = "refresh"
    /\ probe.token.payload["type"] = "access"
    /\ probe.token.payload["exp"] # probe.data["exp"]

----------------------------------------------------------------------------
(* The password hasher called directly *)

\* n times the code point c
Rep(n, c) == [i \in 1 .. n |-> c]

\* Passwords around the 72-byte limit of bcrypt: short ones, the empty one,
\* 72 and 73 bytes of ASCII, pairs that differ at byte 72 or only after it,
\* and two-byte characters (233, 227: both encode to a first byte 195) that
\* the limit cuts in two
HasherPasswords ==
    {<<>>, <<80, 97>>, <<80, 98>>,
     Rep(72, 97), Rep(73, 97), Rep(72, 97) \o <<98>>,
     Rep(71, 97) \o <<98>>, Rep(71, 97) \o <<98, 99>>,
     Rep(71, 97) \o <<233>>, Rep(71, 97) \o <<227>>,
     Rep(36, 233), Rep(36, 233) \o <<97>>}

call_verify_password(plain_password, password, salt) ==
    /\ probe = NoProbe
    /\ probe' = [fn |-> "verify_password", plain_password |-> plain_password,
                 password |-> password,
                 result |-> verify_password(plain_password,
                                            get_password_hash(password, salt))]
    /\ UNCHANGED <<users, allocated, now, steps, issued, used, last, observed,
                   pending, resources>>

\* The salts that successive calls of bcrypt.gensalt() draw: 16 bytes of
\* os.urandom each, no two draws alike
FreshSalts == 1 .. (MaxSalts + 1)

\* get_password_hash called twice on one password
call_get_password_hash_twice(password, salt1, salt2) ==
    /\ probe = NoProbe
    /\ salt1 # salt2
    /\ probe' = [fn |-> "get_password_hash_twice", password |-> password,
                 first |-> get_password_hash(password, salt1),
                 second |-> get_password_hash(password, salt2)]
    /\ UNCHANGED <<users, allocated, now, steps, issued, used, last, observed,
                   pending, resources>>

\* Values that BCRYPT_ROUNDS may be set to in the environment or .env file:
\* the default and others inside the range bcrypt accepts (4 .. 31)
ConfiguredRounds == {4, 10, BCRYPT_ROUNDS, 14}

\* get_password_hash called under a configuration; the function reads
\* nothing of settings
call_get_password_hash(password, salt, configured) ==
    /\ probe = NoProbe
    /\ probe' = [fn |-> "get_password_hash", password |-> password,
                 configured |-> configured,
                 hashed |-> get_password_hash(password, salt)]
    /\ UNCHANGED <<users, allocated, now, steps, issued, used, last, observed,
                   pending, resources>>

HasherNext ==
    \/ \E p1 \in HasherPasswords, p2 \in HasherPasswords, s \in Salts :
          call_verify_password(p1, p2, s)
    \/ \E p \in HasherPasswords, s1 \in FreshSalts, s2 \in FreshSalts :
          call_get_password_hash_twice(p, s1, s2)
    \/ \E p \in HasherPasswords, s \in FreshSalts, r \in ConfiguredRounds :
          call_get_password_hash(p, s, r)

HasherSpec == Init /\ [][HasherNext]_vars

\* b1 and b2 have the same first 72 bytes
SameFirst72(b1, b2) ==
    \A i \in 1 .. 72 :
        /\ (i <= Len(b1)) <=> (i <= Len(b2))
        /\ (i <= Len(b1) /\ i <= Len(b2)) => b1[i] = b2[i]

(* C20: for all passwords p1 and p2, verify_password(p1,
   get_password_hash(p2)) is true if and only if the UTF-8 encodings of p1
   and p2 have the same first 72 bytes; so a password verifies against its
   own hash, also when it is longer than 72 bytes, and two different
   passwords that agree on their first 72 bytes verify against each other's
   hashes. *)
C20_VerifyIffFirst72BytesEqual ==
    probe.fn = "verify_password" =>
        /\ probe.result <=> SameFirst72(encode_utf8(probe.plain_password),
                                        encode_utf8(probe.password))
        /\ probe.plain_password = probe.password => probe.result

\* Two different passwords, equal up to a character that the 72-byte limit
\* cuts in two, verify against each other's hash
C20_Witness ==
    /\ probe.fn = "verify_password"
    /\ probe.result
    /\ probe.plain_password # probe.password
    /\ Len(probe.plain_password) = 72
    /\ Len(encode_utf8(probe.plain_password)) = 73
    /\ Len(encode_utf8(probe.password)) = 73

(* C21: get_password_hash draws a fresh salt on every call: two calls on the
   same password return different hashes, and the password verifies against
   each of them. *)
C21_FreshSaltPerHash ==
    probe.fn = "get_password_hash_twice" =>
        /\ probe.first # probe.second
        /\ probe.first.salt # probe.second.salt
        /\ verify_password(probe.password, probe.first)
        /\ verify_password(probe.password, probe.second)

\* A password longer than 72 bytes hashed twice
C21_Witness ==
    /\ probe.fn = "get_password_hash_twice"
    /\ Len(encode_utf8(probe.password)) > 72
    /\ probe.first # probe.second

(* C22 as stated: the cost factor embedded in every hash that
   get_password_hash produces is the configured BCRYPT_ROUNDS, for every
   configured value. *)
C22_AsStated ==
    probe.fn = "get_password_hash" => probe.hashed.rounds = probe.configured

----------------------------------------------------------------------------
(* Login against a damaged credential record *)

\* Storage corruption: the stored hash of a user becomes a string that bcrypt
\* cannot parse
CorruptHash(id) ==
    /\ id \in DOMAIN users
    /\ users[id].hashed_password.wellformed
    /\ users' = [users EXCEPT ![id].hashed_password.wellformed = FALSE]
    /\ last' = NoCall
    /\ steps < MaxSteps
    /\ steps' = steps + 1
    /\ UNCHANGED <<allocated, now, issued, used>>

FaultNext ==
    \/ \E e \in Emails, p \in Passwords, n \in Names, s \in Salts :
          Handle(register(e, p, <<n>>, s))
    \/ \E id \in UserIds, active \in BOOLEAN : Handle(SetActive(id, active))
    \/ \E id \in UserIds : Handle(CorruptHash(id))
    \/ \E e \in Emails, p \in Passwords : Handle(login(e, p))

FaultSpec == Init /\ [][FaultNext]_vars

(* C23: POST /auth/login against a record whose stored hash is malformed
   does not end as an ordinary authentication failure: whatever the password,
   the answer is a server error (500) and not 401 "Incorrect email or
   password", no tokens are issued and last_login is not written. *)
C23_MalformedHashIsFatal ==
    [][last'.op = "login" =>
        \A id \in DOMAIN users :
            (/\ users[id].email = last'.email[1]
             /\ ~users[id].hashed_password.wellformed)
            => /\ last'.status = 500
               /\ last'.detail # "Incorrect email or password"
               /\ last'.pair = None
               /\ issued' = issued
               /\ users' = users]_vars

\* A login on a damaged record of an active user who had logged in before
C23_Witness ==
    /\ last.op = "login"
    /\ last.status = 500
    /\ \E id \in DOMAIN users :
          /\ users[id].email = last.email[1]
          /\ ~users[id].hashed_password.wellformed
          /\ users[id].is_active
          /\ users[id].last_login # None

----------------------------------------------------------------------------
(* What the endpoints return and write (specification Spec) *)

\* The names under which a response would carry a credential
SecretFields == {"hashed_password", "password"}

\* The keys of the JSON object returned, and of the claims of the tokens in it
ResponseFields(c) ==
    (IF c.body = None THEN {} ELSE DOMAIN c.body[1])
    \cup (IF c.pair = None THEN {}
          ELSE (DOMAIN c.pair[1].payload) \cup (DOMAIN c.pair[2].payload))

(* C25: no response of POST /auth/register, POST /auth/login,
   POST /auth/refresh, GET /auth/me, GET /users/me, PUT /users/me or
   POST /auth/logout carries the stored password hash or the plaintext
   password: neither the returned user object nor the claims of the returned
   tokens have a field for them, and the error details are fixed texts. *)
C25_NoCredentialInResponse ==
    last.op \in {"register", "login", "refresh", "me", "profile", "update",
                 "logout"} =>
        /\ ResponseFields(last) \cap SecretFields = {}
        /\ last.detail \in {"", "Email already registered",
                            "Incorrect email or password", "Inactive user",
                            "Invalid refresh token", "User not found or inactive",
                            "Could not validate credentials", "User not found",
                            "Invalid token type. Expected access, got refresh",
                            "Not authenticated", "Successfully logged out",
                            "Internal Server Error"}

\* PUT /users/me has returned the record of a user who has a stored hash and
\* has logged in
C25_Witness ==
    /\ last.op = "update"
    /\ last.status = 200
    /\ last.body # None
    /\ last.uid \in DOMAIN users
    /\ users[last.uid].hashed_password.wellformed
    /\ last.body[1].last_login # None

(* C26: get_current_user reports the first failing step of the order decode,
   type check, sub parse, user lookup, active check.  A presented token that
   is badly signed or expired gives 401 "Could not validate credentials",
   also when its type is "refresh"; a validly signed, unexpired access token
   whose sub names a user that is not stored (for instance after
   DELETE /users/me) gives 404 "User not found"; and 403 "Inactive user" is
   given only for a validly signed, unexpired access token of a stored,
   inactive user. *)
C26_FirstFailingStepReported ==
    [][(last'.op \in Protected /\ last'.tok # NoToken) =>
        LET tok == last'.tok
            id == SubjectId(tok)
            valid == SignedByServer(tok) /\ ~ExpiredAt(tok, now)
        IN  /\ ~valid =>
                  /\ last'.status = 401
                  /\ last'.detail = "Could not validate credentials"
            /\ (valid /\ HasType(tok, "access") /\ id # 0
                      /\ id \notin DOMAIN users) =>
                  /\ last'.status = 404
                  /\ last'.detail = "User not found"
            /\ (last'.status = 403) =>
                  /\ last'.detail = "Inactive user"
                  /\ valid
                  /\ HasType(tok, "access")
                  /\ id \in DOMAIN users
                  /\ ~users[id].is_active]_vars

\* An access token issued by login is presented after its user was deleted
C26_Witness ==
    /\ last.op \in Protected
    /\ last.tok \in issued
    /\ HasType(last.tok, "access")
    /\ ~ExpiredAt(last.tok, now)
    /\ SubjectId(last.tok) \notin DOMAIN users
    /\ last.status = 404

(* C27, as stated: every validly signed, unexpired access token whose sub
   claim is absent or is no well-formed user identifier is answered by
   get_current_user with 401 "Could not validate credentials". *)
C27_AsStated ==
    (/\ last.op \in Protected
     /\ SignedByServer(last.tok)
     /\ ~ExpiredAt(last.tok, now)
     /\ HasType(last.tok, "access")
     /\ UUID(get(last.tok.payload, "sub")).exc # "none")
    => /\ last.status = 401
       /\ last.detail = "Could not validate credentials"

(* C29: the auth operations write nothing beyond what is called out.  A
   register that fails, a login that fails, every POST /auth/refresh,
   GET /auth/me, GET /users/me and POST /auth/logout, and every call of a
   protected endpoint that get_current_user rejects, leave the user table as
   it was; a successful login changes the last_login field of the
   authenticated user's record and nothing else. *)
C29_AuthWritesOnlyLastLogin ==
    [][/\ (last'.op = "register" /\ last'.status # 201) =>
              users' = users /\ allocated' = allocated
       /\ (last'.op = "login" /\ last'.status # 200) => users' = users
       /\ last'.op \in {"refresh", "me", "profile", "logout"} => users' = users
       /\ (last'.op \in Protected /\ last'.uid = 0) => users' = users
       /\ (last'.op = "login" /\ last'.status = 200) =>
              /\ last'.uid \in DOMAIN users
              /\ users' = [users EXCEPT ![last'.uid].last_login = <<now>>]]_vars

\* A refresh has succeeded for a user who had logged in earlier than now
C29_Witness ==
    /\ last.op = "refresh"
    /\ last.status = 200
    /\ users[last.uid].last_login # None
    /\ users[last.uid].last_login[1] < now
    /\ Cardinality(DOMAIN users) = 1

----------------------------------------------------------------------------
(* C28, as stated: with no expires_delta, create_access_token sets exp to the
   time of the call plus ACCESS_TOKEN_EXPIRE_MINUTES and create_refresh_token
   to the time of the call plus REFRESH_TOKEN_EXPIRE_DAYS; with any
   expires_delta d, a zero duration included, exp is the time of the call
   plus d; and iat <= exp whenever the lifetime is not negative. *)
C28_AsStated ==
    probe.fn \in {"create_access_token", "create_refresh_token"} =>
        LET p == probe.token.payload
            default == IF probe.fn = "create_access_token"
                       THEN timedelta_minutes(ACCESS_TOKEN_EXPIRE_MINUTES)
                       ELSE timedelta_days(REFRESH_TOKEN_EXPIRE_DAYS)
            lifetime == IF probe.expires_delta = None THEN default
                        ELSE probe.expires_delta[1]
        IN  /\ p["exp"] = probe.t + lifetime
            /\ p["iat"] = probe.t
            /\ lifetime >= 0 => p["iat"] <= p["exp"]

----------------------------------------------------------------------------
(* The resource endpoints: app/api/v1/endpoints/projects.py, feedback.py,
   revisions.py and notifications.py.  Every handler receives current_user
   from get_current_user, so it runs for a stored, active user.  A row keeps
   the columns the handlers read or write: the owner, the parent, the status,
   the version.  Row ids are UUIDs, never used twice: the id of a new row is
   the number of rows inserted so far plus one. *)

RowIds == 1 .. MaxSteps

ProjectStatuses == {"active", "archived"}
FeedbackStatuses == {"pending", "completed"}
RevisionStatuses == {"pending", "approved"}

\* The users get_current_user can return
CurrentUsers == {i \in DOMAIN users : users[i].is_active}

\* db.add(row); db.commit()
insert(table, id, row) ==
    [i \in (DOMAIN table) \cup {id} |-> IF i = id THEN row ELSE table[i]]

\* db.delete(row); db.commit(), for every row whose id is in ids
delete(table, ids) == [i \in (DOMAIN table) \ ids |-> table[i]]

\* filter(Project.id == id, Project.user_id == current_user.id).first()
owned_project(current_user, id) ==
    id \in DOMAIN projects /\ projects[id].user_id = current_user

\* filter(Feedback.id == id, Feedback.user_id == current_user.id).first()
owned_feedback(current_user, id) ==
    id \in DOMAIN feedbacks /\ feedbacks[id].user_id = current_user

\* a revision lookup by id alone
owned_revision_no_join(current_user, id) == id \in DOMAIN revisions

\* query(Revision).join(Feedback).filter(Revision.id == id,
\*                                       Feedback.user_id == current_user.id)
owned_revision(current_user, id) ==
    /\ id \in DOMAIN revisions
    /\ revisions[id].feedback_id \in DOMAIN feedbacks
    /\ feedbacks[revisions[id].feedback_id].user_id = current_user

\* filter(Notification.id == id, Notification.user_id == current_user.id)
owned_notification(current_user, id) ==
    id \in DOMAIN notifications /\ notifications[id].user_id = current_user

\* The feedback rows of a project and the revision rows of a set of
\* feedbacks, which the ORM deletes with their parent (cascade="all,
\* delete-orphan")
feedbacks_of(project_id) ==
    {f \in DOMAIN feedbacks : feedbacks[f].project_id = project_id}
revisions_of(fs) == {r \in DOMAIN revisions : revisions[r].feedback_id \in fs}

\* NotificationResponse reads the attribute "metadata" of the row, which is
\* the table registry of the declarative base and not the column meta_data:
\* a response that holds a notification fails validation, 500
NotificationResponse(rows) == IF rows = {} THEN 200 ELSE 500

(* projects.py *)

list_projects(current_user) ==
    /\ reply' = Reply("list_projects", current_user, 0, 200, "",
                      {i \in DOMAIN projects : projects[i].user_id = current_user},
                      0)
    /\ UNCHANGED <<projects, feedbacks, revisions, notifications, created>>

create_project(current_user) ==
    LET id == created + 1
    IN  /\ projects' = insert(projects, id,
                              [user_id |-> current_user, status |-> "active"])
        /\ created' = id
        /\ reply' = Reply("create_project", current_user, 0, 201, "", {id}, 0)
        /\ UNCHANGED <<feedbacks, revisions, notifications>>

get_project(current_user, project_id) ==
    /\ reply' = IF ~owned_project(current_user, project_id)
                THEN Reply("get_project", current_user, project_id, 404,
                           "Project not found", {}, 0)
                ELSE Reply("get_project", current_user, project_id, 200, "",
                           {project_id}, 0)
    /\ UNCHANGED <<projects, feedbacks, revisions, notifications, created>>

update_project(current_user, project_id, status) ==
    IF ~owned_project(current_user, project_id)
    THEN /\ reply' = Reply("update_project", current_user, project_id, 404,
                           "Project not found", {}, 0)
         /\ UNCHANGED <<projects, feedbacks, revisions, notifications, created>>
    ELSE /\ projects' = [projects EXCEPT ![project_id].status = status]
         /\ reply' = Reply("update_project", current_user, project_id, 200, "",
                           {project_id}, 0)
         /\ UNCHANGED <<feedbacks, revisions, notifications, created>>

delete_project(current_user, project_id) ==
    IF ~owned_project(current_user, project_id)
    THEN /\ reply' = Reply("delete_project", current_user, project_id, 404,
                           "Project not found", {}, 0)
         /\ UNCHANGED <<projects, feedbacks, revisions, notifications, created>>
    ELSE /\ projects' = delete(projects, {project_id})
         /\ feedbacks' = delete(feedbacks, feedbacks_of(project_id))
         /\ revisions' = delete(revisions, revisions_of(feedbacks_of(project_id)))
         /\ reply' = Reply("delete_project", current_user, project_id, 204, "",
                           {}, 0)
         /\ UNCHANGED <<notifications, created>>

\* GET /projects/{project_id}/feedback
projects_list_project_feedback(current_user, project_id) ==
    /\ reply' = IF ~owned_project(current_user, project_id)
                THEN Reply("projects.list_project_feedback", current_user,
                           project_id, 404, "Project not found", {}, 0)
                ELSE Reply("projects.list_project_feedback", current_user,
                           project_id, 200, "",
                           {f \in feedbacks_of(project_id) :
                               feedbacks[f].user_id = current_user}, 0)
    /\ UNCHANGED <<projects, feedbacks, revisions, notifications, created>>

(* feedback.py *)

create_feedback(current_user, project_id) ==
    LET id == created + 1
    IN  IF ~owned_project(current_user, project_id)
        THEN /\ reply' = Reply("create_feedback", current_user, project_id, 404,
                               "Project not found", {}, 0)
             /\ UNCHANGED <<projects, feedbacks, revisions, notifications,
                            created>>
        ELSE /\ feedbacks' = insert(feedbacks, id,
                                    [user_id |-> current_user,
                                     project_id |-> project_id,
                                     status |-> "pending"])
             /\ created' = id
             /\ reply' = Reply("create_feedback", current_user, project_id, 201,
                               "", {id}, 0)
             /\ UNCHANGED <<projects, revisions, notifications>>

get_feedback(current_user, feedback_id) ==
    /\ reply' = IF ~owned_feedback(current_user, feedback_id)
                THEN Reply("get_feedback", current_user, feedback_id, 404,
                           "Feedback not found", {}, 0)
                ELSE Reply("get_feedback", current_user, feedback_id, 200, "",
                           {feedback_id}, 0)
    /\ UNCHANGED <<projects, feedbacks, revisions, notifications, created>>

\* GET /feedback/project/{project_id}: no lookup of the project, the rows
\* are filtered by project and owner
feedback_list_project_feedback(current_user, project_id) ==
    /\ reply' = Reply("feedback.list_project_feedback", current_user,
                      project_id, 200, "",
                      {f \in feedbacks_of(project_id) :
                          feedbacks[f].user_id = current_user}, 0)
    /\ UNCHANGED <<projects, feedbacks, revisions, notifications, created>>

update_feedback(current_user, feedback_id, status) ==
    IF ~owned_feedback(current_user, feedback_id)
    THEN /\ reply' = Reply("update_feedback", current_user, feedback_id, 404,
                           "Feedback not found", {}, 0)
         /\ UNCHANGED <<projects, feedbacks, revisions, notifications, created>>
    ELSE /\ feedbacks' = [feedbacks EXCEPT ![feedback_id].status = status]
         /\ reply' = Reply("update_feedback", current_user, feedback_id, 200, "",
                           {feedback_id}, 0)
         /\ UNCHANGED <<projects, revisions, notifications, created>>

delete_feedback(current_user, feedback_id) ==
    IF ~owned_feedback(current_user, feedback_id)
    THEN /\ reply' = Reply("delete_feedback", current_user, feedback_id, 404,
                           "Feedback not found", {}, 0)
         /\ UNCHANGED <<projects, feedbacks, revisions, notifications, created>>
    ELSE /\ feedbacks' = delete(feedbacks, {feedback_id})
         /\ revisions' = delete(revisions, revisions_of({feedback_id}))
         /\ reply' = Reply("delete_feedback", current_user, feedback_id, 204, "",
                           {}, 0)
         /\ UNCHANGED <<projects, notifications, created>>

\* GET /feedback/{feedback_id}/actions; nothing in the program inserts an
\* ActionItem
list_action_items(current_user, feedback_id) ==
    /\ reply' = IF ~owned_feedback(current_user, feedback_id)
                THEN Reply("list_action_items", current_user, feedback_id, 404,
                           "Feedback not found", {}, 0)
                ELSE Reply("list_action_items", current_user, feedback_id, 200,
                           "", {}, 0)
    /\ UNCHANGED <<projects, feedbacks, revisions, notifications, created>>

\* GET /feedback/{feedback_id}/revisions
feedback_list_feedback_revisions(current_user, feedback_id) ==
    /\ reply' = IF ~owned_feedback(current_user, feedback_id)
                THEN Reply("feedback.list_feedback_revisions", current_user,
                           feedback_id, 404, "Feedback not found", {}, 0)
                ELSE Reply("feedback.list_feedback_revisions", current_user,
                           feedback_id, 200, "", revisions_of({feedback_id}), 0)
    /\ UNCHANGED <<projects, feedbacks, revisions, notifications, created>>

(* revisions.py *)

\* order_by(Revision.version.desc()).first() among the revisions of the
\* feedback: None, or <<id>> of the row with the highest version
last_revision(feedback_id) ==
    LET rs == revisions_of({feedback_id})
    IN  IF rs = {} THEN None
        ELSE <<CHOOSE r \in rs :
                  \A q \in rs : revisions[q].version <= revisions[r].version>>

\* a version number that does not look at the revisions there are
next_version_always_first(last_rev) == 1

\* (last_revision.version + 1) if last_revision else 1
next_version(last_rev) ==
    IF last_rev # None THEN revisions[last_rev[1]].version + 1 ELSE 1

\* POST /revisions/?feedback_id=...: an async def without an await, which
\* the event loop runs from its first line to its last without interleaving
create_revision(current_user, feedback_id) ==
    LET id == created + 1
    IN  IF ~owned_feedback(current_user, feedback_id)
        THEN /\ reply' = Reply("create_revision", current_user, feedback_id, 404,
                               "Feedback not found", {}, 0)
             /\ UNCHANGED <<projects, feedbacks, revisions, notifications,
                            created>>
        ELSE /\ revisions' = insert(revisions, id,
                    [feedback_id |-> feedback_id,
                     version |-> next_version(last_revision(feedback_id)),
                     status |-> "pending", approved_at |-> None])
             /\ created' = id
             /\ reply' = Reply("create_revision", current_user, feedback_id, 201,
                               "", {id}, 0)
             /\ UNCHANGED <<projects, feedbacks, notifications>>

get_revision(current_user, revision_id) ==
    /\ reply' = IF ~owned_revision(current_user, revision_id)
                THEN Reply("get_revision", current_user, revision_id, 404,
                           "Revision not found", {}, 0)
                ELSE Reply("get_revision", current_user, revision_id, 200, "",
                           {revision_id}, 0)
    /\ UNCHANGED <<projects, feedbacks, revisions, notifications, created>>

\* GET /revisions/feedback/{feedback_id}/revisions
revisions_list_feedback_revisions(current_user, feedback_id) ==
    /\ reply' = IF ~owned_feedback(current_user, feedback_id)
                THEN Reply("revisions.list_feedback_revisions", current_user,
                           feedback_id, 404, "Feedback not found", {}, 0)
                ELSE Reply("revisions.list_feedback_revisions", current_user,
                           feedback_id, 200, "", revisions_of({feedback_id}), 0)
    /\ UNCHANGED <<projects, feedbacks, revisions, notifications, created>>

\* PUT /revisions/{revision_id}; RevisionUpdate has the fields status and
\* notes only
update_revision(current_user, revision_id, status) ==
    IF ~owned_revision(current_user, revision_id)
    THEN /\ reply' = Reply("update_revision", current_user, revision_id, 404,
                           "Revision not found", {}, 0)
         /\ UNCHANGED <<projects, feedbacks, revisions, notifications, created>>
    ELSE /\ revisions' = [revisions EXCEPT
                             ![revision_id].status = status,
                             ![revision_id].approved_at =
                                 IF status = "approved" THEN <<now>> ELSE @]
         /\ reply' = Reply("update_revision", current_user, revision_id, 200, "",
                           {revision_id}, 0)
         /\ UNCHANGED <<projects, feedbacks, notifications, created>>

(* notifications.py *)

\* A notification for a user; no endpoint inserts one, the rows come from
\* outside the request handlers
Notify(user) ==
    LET id == created + 1
    IN  /\ user \in DOMAIN users
        /\ notifications' = insert(notifications, id,
                                   [user_id |-> user, is_read |-> FALSE,
                                    read_at |-> None])
        /\ created' = id
        /\ reply' = NoReply
        /\ UNCHANGED <<projects, feedbacks, revisions>>

list_notifications(current_user, unread_only) ==
    LET rows == {n \in DOMAIN notifications :
                    /\ notifications[n].user_id = current_user
                    /\ unread_only => ~notifications[n].is_read}
    IN  /\ reply' = IF NotificationResponse(rows) = 200
                    THEN Reply("list_notifications", current_user, 0, 200, "",
                               rows, 0)
                    ELSE Reply("list_notifications", current_user, 0, 500,
                               "Internal Server Error", {}, 0)
        /\ UNCHANGED <<projects, feedbacks, revisions, notifications, created>>

\* PUT /notifications/{notification_id}/read: the row is written and
\* committed before the response is built
mark_notification_read(current_user, notification_id) ==
    IF ~owned_notification(current_user, notification_id)
    THEN /\ reply' = Reply("mark_notification_read", current_user,
                           notification_id, 404, "Notification not found", {}, 0)
         /\ UNCHANGED <<projects, feedbacks, revisions, notifications, created>>
    ELSE /\ notifications' =
                IF ~notifications[notification_id].is_read
                THEN [notifications EXCEPT ![notification_id].is_read = TRUE,
                                           ![notification_id].read_at = <<now>>]
                ELSE notifications
         /\ reply' = Reply("mark_notification_read", current_user,
                           notification_id,
                           NotificationResponse({notification_id}),
                           "Internal Server Error", {}, 0)
         /\ UNCHANGED <<projects, feedbacks, revisions, created>>

mark_all_notifications_read(current_user) ==
    /\ notifications' =
          [n \in DOMAIN notifications |->
              IF notifications[n].user_id = current_user
                 /\ ~notifications[n].is_read
              THEN [notifications[n] EXCEPT !.is_read = TRUE, !.read_at = <<now>>]
              ELSE notifications[n]]
    /\ reply' = Reply("mark_all_notifications_read", current_user, 0, 200,
                      "All notifications marked as read", {}, 0)
    /\ UNCHANGED <<projects, feedbacks, revisions, created>>

get_unread_count(current_user) ==
    /\ reply' = Reply("get_unread_count", current_user, 0, 200, "", {},
                      Cardinality({n \in DOMAIN notifications :
                                      /\ notifications[n].user_id = current_user
                                      /\ ~notifications[n].is_read}))
    /\ UNCHANGED <<projects, feedbacks, revisions, notifications, created>>

----------------------------------------------------------------------------

\* What the resource endpoints keep
tables == <<projects, feedbacks, revisions, notifications, created>>

\* One resource request at a time.  A request that writes to a table counts
\* as a step; one that changes no table is explored as the last request of a
\* behaviour.
Serve(request) ==
    /\ ~observed
    /\ request
    /\ observed' = (tables' = tables)
    /\ steps' = IF tables' = tables THEN steps ELSE steps + 1
    /\ steps' <= MaxSteps
    /\ UNCHANGED <<users, allocated, now, issued, used, last, pending, probe>>

\* Two users have registered, as POST /auth/register leaves them
ResourceInit ==
    /\ users = [i \in {1, 2} |->
                   [email |-> IF i = 1 THEN "alice@example.com"
                                       ELSE "bob@example.com",
                    full_name |-> <<"Alice">>,
                    hashed_password |-> get_password_hash(<<80, 97>>, 1),
                    is_active |-> TRUE, is_verified |-> FALSE,
                    last_login |-> None]]
    /\ allocated = 2
    /\ now = 0
    /\ steps = 0
    /\ issued = {}
    /\ used = {}
    /\ last = NoCall
    /\ observed = FALSE
    /\ pending = [r \in 1 .. MaxRequests |-> Idle]
    /\ probe = NoProbe
    /\ projects = [i \in {} |-> None]
    /\ feedbacks = [i \in {} |-> None]
    /\ revisions = [i \in {} |-> None]
    /\ notifications = [i \in {} |-> None]
    /\ created = 0
    /\ reply = NoReply

ResourceNext ==
    \/ \E u \in CurrentUsers : Serve(list_projects(u))
    \/ \E u \in CurrentUsers : Serve(create_project(u))
    \/ \E u \in CurrentUsers, id \in RowIds : Serve(get_project(u, id))
    \/ \E u \in CurrentUsers, id \in RowIds, st \in ProjectStatuses :
          Serve(update_project(u, id, st))
    \/ \E u \in CurrentUsers, id \in RowIds : Serve(delete_project(u, id))
    \/ \E u \in CurrentUsers, id \in RowIds :
          Serve(projects_list_project_feedback(u, id))
    \/ \E u \in CurrentUsers, id \in RowIds : Serve(create_feedback(u, id))
    \/ \E u \in CurrentUsers, id \in RowIds : Serve(get_feedback(u, id))
    \/ \E u \in CurrentUsers, id \in RowIds :
          Serve(feedback_list_project_feedback(u, id))
    \/ \E u \in CurrentUsers, id \in RowIds, st \in FeedbackStatuses :
          Serve(update_feedback(u, id, st))
    \/ \E u \in CurrentUsers, id \in RowIds : Serve(delete_feedback(u, id))
    \/ \E u \in CurrentUsers, id \in RowIds : Serve(list_action_items(u, id))
    \/ \E u \in CurrentUsers, id \in RowIds :
          Serve(feedback_list_feedback_revisions(u, id))
    \/ \E u \in CurrentUsers, id \in RowIds : Serve(create_revision(u, id))
    \/ \E u \in CurrentUsers, id \in RowIds : Serve(get_revision(u, id))
    \/ \E u \in CurrentUsers, id \in RowIds :
          Serve(revisions_list_feedback_revisions(u, id))
    \/ \E u \in CurrentUsers, id \in RowIds, st \in RevisionStatuses :
          Serve(update_revision(u, id, st))
    \/ \E u \in DOMAIN users : Serve(Notify(u))
    \/ \E u \in CurrentUsers, unread_only \in BOOLEAN :
          Serve(list_notifications(u, unread_only))
    \/ \E u \in CurrentUsers, id \in RowIds : Serve(mark_notification_read(u, id))
    \/ \E u \in CurrentUsers : Serve(mark_all_notifications_read(u))
    \/ \E u \in CurrentUsers : Serve(get_unread_count(u))

ResourceSpec == ResourceInit /\ [][ResourceNext]_vars

----------------------------------------------------------------------------
(* Vocabulary of the resource properties *)

\* The requests that name a project, a feedback, a revision or a
\* notification by its id
ProjectOps == {"get_project", "update_project", "delete_project",
               "projects.list_project_feedback",
               "feedback.list_project_feedback", "create_feedback"}
FeedbackOps == {"get_feedback", "update_feedback", "delete_feedback",
                "list_action_items", "feedback.list_feedback_revisions",
                "revisions.list_feedback_revisions", "create_revision"}
RevisionOps == {"get_revision", "update_revision"}
NotificationOps == {"mark_notification_read"}

\* The user who owns the row id, 0 when there is no such row; a revision
\* belongs to the owner of its feedback
RowOwner(id) ==
    IF id \in DOMAIN projects THEN projects[id].user_id
    ELSE IF id \in DOMAIN feedbacks THEN feedbacks[id].user_id
    ELSE IF id \in DOMAIN revisions
        THEN feedbacks[revisions[id].feedback_id].user_id
    ELSE IF id \in DOMAIN notifications THEN notifications[id].user_id
    ELSE 0

\* The request r names a stored row of its kind that another user owns
OnForeignRow(r) ==
    /\ \/ r.op \in ProjectOps /\ r.id \in DOMAIN projects
       \/ r.op \in FeedbackOps /\ r.id \in DOMAIN feedbacks
       \/ r.op \in RevisionOps /\ r.id \in DOMAIN revisions
       \/ r.op \in NotificationOps /\ r.id \in DOMAIN notifications
    /\ RowOwner(r.id) # r.user

(* C24, as stated: every get, update, delete, mark-read, child-listing or
   child-creating request of a user on a project, feedback, revision or
   notification of another user is answered 404 and changes no table, and
   every response holds only rows of the requesting user. *)
C24_AsStated ==
    [][reply'.op # "none" =>
        /\ OnForeignRow(reply') =>
              /\ reply'.status = 404
              /\ reply'.returned = {}
              /\ tables' = tables
        /\ \A id \in reply'.returned : RowOwner(id)' = reply'.user]_vars

(* C24: ownership isolation.  Every get, update, delete, mark-read,
   child-listing or child-creating request of a user on a project, feedback,
   revision or notification of another user changes no table and returns no
   row; it is answered 404, except GET /feedback/project/{project_id}, which
   does not look the project up and answers 200 with an empty list.  Every
   response holds only rows of the requesting user. *)
C24_OwnershipIsolation ==
    [][reply'.op # "none" =>
        /\ OnForeignRow(reply') =>
              /\ reply'.returned = {}
              /\ tables' = tables
              /\ IF reply'.op = "feedback.list_project_feedback"
                 THEN reply'.status = 200
                 ELSE reply'.status = 404
        /\ \A id \in reply'.returned : RowOwner(id)' = reply'.user]_vars

\* A user asks for a revision that another user has uploaded
C24_Witness ==
    /\ reply.op = "get_revision"
    /\ reply.id \in DOMAIN revisions
    /\ RowOwner(reply.id) \notin {0, reply.user}
    /\ reply.status = 404

\* The version numbers of the revisions of a feedback
versions_of(revs, feedback_id) ==
    {revs[r].version : r \in {q \in DOMAIN revs : revs[q].feedback_id = feedback_id}}

(* C30: create_revision gives version 1 to the first revision of a feedback
   and the highest version of that feedback plus one to each later revision;
   whatever create_revision and update_revision requests have been served,
   the versions of the revisions of each feedback are exactly 1..n, without
   duplicate and without gap, and update_revision changes no version. *)
C30_VersionsAreOneToN ==
    [][/\ \A f \in DOMAIN feedbacks' :
            LET rs == {r \in DOMAIN revisions' : revisions'[r].feedback_id = f}
            IN  versions_of(revisions', f) = 1 .. Cardinality(rs)
       /\ \A r \in (DOMAIN revisions) \cap (DOMAIN revisions') :
            revisions'[r].version = revisions[r].version
       /\ (reply'.op = "create_revision" /\ reply'.status = 201) =>
            \A r \in reply'.returned :
                /\ r \notin DOMAIN revisions
                /\ revisions'[r].feedback_id = reply'.id
                /\ revisions'[r].version =
                      Cardinality(versions_of(revisions, reply'.id)) + 1
                /\ \A v \in versions_of(revisions, reply'.id) :
                      v < revisions'[r].version]_vars

\* update_revision has been served on the first of two revisions of a
\* feedback
C30_Witness ==
    /\ reply.op = "update_revision"
    /\ reply.status = 200
    /\ reply.id \in DOMAIN revisions
    /\ revisions[reply.id].version = 1
    /\ \E r \in DOMAIN revisions :
          /\ revisions[r].feedback_id = revisions[reply.id].feedback_id
          /\ revisions[r].version = 2
====
